---- MODULE Spec2Model ----
EXTENDS Integers, Sequences, FiniteSets, TLC

(***************************************************************************)
(* Model of the assessment pipeline: runAssessment (src/src/assessment.ts) *)
(* driving fetchAllPatients, withRetry and submitAssessment                *)
(* (src/src/client/api.ts) against a remote API that answers each request  *)
(* with a response or an error of its choosing.                            *)
(***************************************************************************)

VARIABLES
    cfg,        \* the configuration values read from the environment (config.ts)
    pc,         \* where the single thread of control of the run stands
    req,        \* the request of the withRetry call in progress (fn's closure)
    inflight,   \* the outbound HTTP requests that are outstanding
    response,   \* the response the loop iteration is working on
    error,      \* the error caught by withRetry's catch block
    attempt,    \* withRetry: attempt
    delay,      \* withRetry: delay of the last sleep of this call
    delayKind,  \* which branch computed delay: "none", "retryAfter", "rateLimit", "backoff"
    timer,      \* the pending setTimeout of sleep(ms), or NoTimer
    patients,   \* fetchAllPatients: patients
    page,       \* fetchAllPatients: page
    hasNext,    \* fetchAllPatients: hasNext
    safety,     \* fetchAllPatients: safety
    fetched,    \* the list fetchAllPatients returned, or NotReturned
    payload,    \* the list the submitted alerts were built from, or NotReturned
    thrown,     \* the error that left a function of the run by throw, and where
    served,     \* remote API: page responses sent in this run
    failBudget, \* remote API: failures it may still answer with
    server,     \* remote API: the pages of records it holds, or NoCatalog
    calls,      \* history: invocations of fn() by the withRetry call in progress
    sleeps,     \* history: sleeps started by the withRetry call in progress
    iterations, \* history: page iterations (retried GET calls) of fetchAllPatients
    posts,      \* history: POST /submit-assessment requests issued
    records,    \* buildAlerts: the elements of patients the loop has visited
    patient,    \* buildAlerts / buildRiskProfile: patient
    scores,     \* buildRiskProfile: bpScore, temperatureScore, ageScore, or NoScores
    profile,    \* the profile buildRiskProfile returned for patient, or NoProfile
    highRiskPatients,   \* buildAlerts: highRiskPatients, in insertion order
    feverPatients,      \* buildAlerts: feverPatients, in insertion order
    dataQualityIssues,  \* buildAlerts: dataQualityIssues, in insertion order
    alerts,     \* the AlertsPayload buildAlerts returned, or NoAlerts
    collection, \* buildAlerts: the array the caller passed, as it now is
    previous    \* the payload of the caller's earlier call on collection, or NoAlerts

runVars == <<cfg, pc, req, inflight, response, error, attempt, delay, delayKind,
             timer, patients, page, hasNext, safety, fetched, payload, thrown,
             served, failBudget, server, calls, sleeps, iterations, posts>>

scoringVars == <<records, patient, scores, profile, highRiskPatients, feverPatients,
                 dataQualityIssues, alerts, collection, previous>>

vars == <<runVars, scoringVars>>

\* ---------------------------------------------------------------- bounds

\* failures the remote API may answer with in one run
MaxFailures == 5
\* page responses after which the remote API only sends final pages
MaxPages == 2
\* records the remote API holds
MaxRecords == 3
\* elements of the collection buildAlerts is called with
MaxPatients == 2
MaxServerPages == 100

\* const x = v; followed by F(x): v is evaluated once
Bind(v, F(_)) == CHOOSE r \in {F(x) : x \in {v}} : TRUE

Min(a, b) == IF a <= b THEN a ELSE b
Max(a, b) == IF a >= b THEN a ELSE b
RECURSIVE Pow2(_)
Pow2(n) == IF n <= 0 THEN 1 ELSE 2 * Pow2(n - 1)

\* ------------------------------------------------- JavaScript values used

\* A JavaScript value: t is its typeof/shape, s the characters of a string or
\* of String(number), a the elements of an array.
JSValue(t, s, a) == [t |-> t, s |-> s, a |-> a]
JSUndefined == JSValue("undefined", <<>>, <<>>)
JSString(s) == JSValue("string", s, <<>>)
JSNumber(s) == JSValue("number", s, <<>>)
JSArray(a) == JSValue("array", <<>>, a)

\* ToBoolean: undefined, null, false, "", 0 and NaN are falsy; arrays and
\* objects are truthy
Truthy(v) ==
    CASE v.t \in {"undefined", "null"} -> FALSE
      [] v.t = "boolean" -> v.s = <<"t", "r", "u", "e">>
      [] v.t = "string" -> v.s # <<>>
      [] v.t = "number" -> v.s \notin {<<"0">>, <<"N", "a", "N">>}
      [] OTHER -> TRUE

\* a || b
OrElse(a, b) == IF Truthy(a) THEN a ELSE b

RECURSIVE JoinAll(_)
JoinAll(a) ==
    IF a = <<>> THEN <<>>
    ELSE IF Len(a) = 1 THEN Head(a).s
    ELSE Head(a).s \o <<",">> \o JoinAll(Tail(a))

\* String(v)
ToStr(v) ==
    CASE v.t = "undefined" -> <<"u", "n", "d", "e", "f", "i", "n", "e", "d">>
      [] v.t = "array" -> JoinAll(v.a)
      [] OTHER -> v.s

DigitChars == <<"0", "1", "2", "3", "4", "5", "6", "7", "8", "9">>
IsDigit(c) == \E d \in 1..10 : DigitChars[d] = c
DigitValue(c) == (CHOOSE d \in 1..10 : DigitChars[d] = c) - 1
IsSpace(c) == c \in {" ", "\t", "\n"}

NaN == [nan |-> TRUE, n |-> 0]
Finite(n) == [nan |-> FALSE, n |-> n]

RECURSIVE SkipSpace(_)
SkipSpace(s) ==
    IF s # <<>> /\ IsSpace(Head(s)) THEN SkipSpace(Tail(s)) ELSE s

RECURSIVE LeadingDigits(_, _, _)
LeadingDigits(s, acc, cnt) ==
    IF s # <<>> /\ IsDigit(Head(s))
    THEN LeadingDigits(Tail(s), acc * 10 + DigitValue(Head(s)), cnt + 1)
    ELSE [n |-> acc, count |-> cnt]

\* Number.parseInt(s, 10): leading white space, an optional sign, then the
\* longest run of digits; NaN when there is no digit.
parseInt(s) ==
    LET t == SkipSpace(s)
        signed == t # <<>> /\ Head(t) \in {"-", "+"}
        neg == t # <<>> /\ Head(t) = "-"
        d == LeadingDigits(IF signed THEN Tail(t) ELSE t, 0, 0)
    IN IF d.count = 0 THEN NaN
       ELSE Finite(IF neg THEN 0 - d.n ELSE d.n)

\* ----------------------------------------------------------- configuration

DEFAULT_PAGE_LIMIT == 20
DEFAULT_MAX_RETRIES == 5
DEFAULT_RETRY_BASE_DELAY_MS == 500
DEFAULT_RETRY_MAX_DELAY_MS == 10000
DEFAULT_RATE_LIMIT_DELAY_MS == 2000
DEFAULT_PAGE_REQUEST_DELAY_MS == 1000

\* parseNumber(value, fallback) || fallback
parseNumber(value, fallback) ==
    LET parsed == parseInt(IF value.t = "undefined" THEN <<>> ELSE value.s)
        n == IF parsed.nan THEN fallback ELSE parsed.n
    IN IF n = 0 THEN fallback ELSE n

\* the exported constants of config.ts under the environment env
LoadConfig(env) ==
    [limit |-> parseNumber(env.PAGE_LIMIT, DEFAULT_PAGE_LIMIT),
     maxRetries |-> parseNumber(env.MAX_RETRIES, DEFAULT_MAX_RETRIES),
     baseDelay |-> parseNumber(env.RETRY_BASE_DELAY_MS, DEFAULT_RETRY_BASE_DELAY_MS),
     maxDelay |-> parseNumber(env.RETRY_MAX_DELAY_MS, DEFAULT_RETRY_MAX_DELAY_MS),
     rateLimitDelay |-> parseNumber(env.RATE_LIMIT_DELAY_MS, DEFAULT_RATE_LIMIT_DELAY_MS),
     pageDelay |-> parseNumber(env.PAGE_REQUEST_DELAY_MS, DEFAULT_PAGE_REQUEST_DELAY_MS)]

Env(limit, retries, base, cap, rate) ==
    [PAGE_LIMIT |-> limit, MAX_RETRIES |-> retries, RETRY_BASE_DELAY_MS |-> base,
     RETRY_MAX_DELAY_MS |-> cap, RATE_LIMIT_DELAY_MS |-> rate,
     PAGE_REQUEST_DELAY_MS |-> JSUndefined]

\* ------------------------------------------------------ requests, errors

GetRequest(p, l) == [method |-> "GET", page |-> p, limit |-> l]
PostRequest == [method |-> "POST", page |-> 0, limit |-> 0]
NoRequest == [method |-> "none", page |-> 0, limit |-> 0]

\* error.response.data of a failed request: t is "object", "string" (a
\* non-empty text) or "empty" (no body); the four fields withRetry reads
ErrBody(t, f1, f2, f3, f4) ==
    [t |-> t, retry_after |-> f1, retryAfter |-> f2,
     retry_after_seconds |-> f3, retryAfterSeconds |-> f4]
NoBody == ErrBody("empty", JSUndefined, JSUndefined, JSUndefined, JSUndefined)
TextBody == ErrBody("string", JSUndefined, JSUndefined, JSUndefined, JSUndefined)
ObjBody(f1, f2, f3, f4) == ErrBody("object", f1, f2, f3, f4)

\* A rejection: name "AxiosError" for axios errors, status 0 standing for an
\* absent response status, hLower/hUpper the headers 'retry-after'/'Retry-After'
ErrorValue(name, hasResponse, status, hLower, hUpper, body) ==
    [name |-> name, hasResponse |-> hasResponse, status |-> status,
     hLower |-> hLower, hUpper |-> hUpper, body |-> body]
NoError == ErrorValue("none", FALSE, 0, JSUndefined, JSUndefined, NoBody)
TypeError == ErrorValue("TypeError", FALSE, 0, JSUndefined, JSUndefined, NoBody)
NetworkError == ErrorValue("AxiosError", FALSE, 0, JSUndefined, JSUndefined, NoBody)
HttpError(status, hLower, hUpper, body) ==
    ErrorValue("AxiosError", TRUE, status, hLower, hUpper, body)

isAxiosError(e) == e.name = "AxiosError"

\* error.response?.status, 0 when there is none
StatusOf(e) == IF e.hasResponse THEN e.status ELSE 0

isRetryableError_ge400(e) ==
    IF ~isAxiosError(e) THEN TRUE
    ELSE IF StatusOf(e) = 0 THEN TRUE
    ELSE StatusOf(e) >= 400

isRetryableError(e) ==
    IF ~isAxiosError(e) THEN TRUE
    ELSE IF StatusOf(e) = 0 THEN TRUE
    ELSE StatusOf(e) = 429 \/ (StatusOf(e) >= 500 /\ StatusOf(e) < 600)

isRateLimit(e) == isAxiosError(e) /\ e.hasResponse /\ e.status = 429

\* attempt >= MAX_RETRIES || !isRetryableError(error)
shouldThrow_offByOne(a, e) == a > cfg.maxRetries \/ ~isRetryableError(e)

shouldThrow(a, e) == a >= cfg.maxRetries \/ ~isRetryableError(e)

\* headers?.['retry-after'] || headers?.['Retry-After']
headerRetryAfter(e) == OrElse(e.hLower, e.hUpper)

\* body.retry_after || body.retryAfter || body.retry_after_seconds || body.retryAfterSeconds
bodyRetryAfter(b) ==
    OrElse(b.retry_after, OrElse(b.retryAfter,
        OrElse(b.retry_after_seconds, b.retryAfterSeconds)))

\* the value of retryAfter when it is tested by if (retryAfter)
retryAfterOf_headerOnly(e) == headerRetryAfter(e)

retryAfterOf(e) ==
    LET h == headerRetryAfter(e)
    IN IF ~Truthy(h) /\ e.body.t # "empty" /\ e.body.t = "object"
       THEN bodyRetryAfter(e.body)
       ELSE h

\* Math.min(RETRY_MAX_DELAY_MS, RATE_LIMIT_DELAY_MS * attempt)
rateLimitFallback(a) == Min(cfg.maxDelay, cfg.rateLimitDelay * a)

\* the delay of the isRateLimit branch
rateLimitDelay_capped(e, a) ==
    LET ra == retryAfterOf(e)
        v == IF ra.t = "array"
             THEN (IF ra.a = <<>> THEN JSUndefined ELSE ra.a[1])
             ELSE ra
        secs == parseInt(ToStr(v))
    IN IF Truthy(ra) /\ ~secs.nan /\ secs.n > 0 /\ secs.n <= 3600
       THEN Min(cfg.maxDelay, secs.n * 1000)
       ELSE rateLimitFallback(a)

rateLimitDelay(e, a) ==
    LET ra == retryAfterOf(e)
        v == IF ra.t = "array"
             THEN (IF ra.a = <<>> THEN JSUndefined ELSE ra.a[1])
             ELSE ra
        secs == parseInt(ToStr(v))
    IN IF Truthy(ra) /\ ~secs.nan /\ secs.n > 0 /\ secs.n <= 3600
       THEN secs.n * 1000
       ELSE rateLimitFallback(a)

\* the delay of the exponential branch, jitter being Math.random() * 200
backoffDelay_linear(a, jitter) ==
    Min(cfg.maxDelay, Min(cfg.maxDelay, cfg.baseDelay) + jitter)

backoffDelay(a, jitter) ==
    Min(cfg.maxDelay,
        Min(cfg.maxDelay, cfg.baseDelay * Pow2(a - 1)) + jitter)

\* the values of Math.random() * 200 the model draws, in whole milliseconds
JitterSamples == {0, 199}

\* ----------------------------------------------------- page responses

\* A field of a response body: k is "undefined", "list" (v its elements),
\* "truthy" (a value that is no list and is truthy) or "falsy" (null, 0, "")
FUndef == [k |-> "undefined", v |-> <<>>]
FList(l) == [k |-> "list", v |-> l]
FTruthy == [k |-> "truthy", v |-> <<>>]
FFalsy == [k |-> "falsy", v |-> <<>>]

\* a number the pagination object may hold, or undefined
PUndef == [def |-> FALSE, n |-> 0]
PNum(n) == [def |-> TRUE, n |-> n]

\* response.data.pagination: hasNext is "true", "false" or "undefined"
Pagination(pg, total, hn) ==
    [present |-> TRUE, page |-> pg, totalPages |-> total, hasNext |-> hn]
NoPagination ==
    [present |-> FALSE, page |-> PUndef, totalPages |-> PUndef, hasNext |-> "undefined"]

\* response.data: t is "object", "array" (items its elements), "string" or "null"
Body(t, data, pats, results, items, pg) ==
    [t |-> t, data |-> data, patients |-> pats, results |-> results,
     items |-> items, pagination |-> pg]
NoResponse == Body("none", FUndef, FUndef, FUndef, <<>>, NoPagination)

\* a record of page p (JSON null being NullElement)
Record(p, i) == [p |-> p, i |-> i]
NullElement == [p |-> 0, i |-> 0]
PageList(p, n, bad) ==
    [i \in 1..n |-> IF bad /\ i = n THEN NullElement ELSE Record(p, i)]

\* the evaluation of response.data.data throws (response.data is null)
bodyThrows(b) == b.t = "null"

\* a truthy field value: arrays are truthy, also when empty
FieldTruthy(f) == f.k \in {"list", "truthy"}

\* pageData after the three shape tests
ExtractPage(b) ==
    IF b.t = "object" /\ b.data.k = "list" THEN b.data.v
    ELSE IF b.t = "array" THEN b.items
    ELSE IF b.t = "object"
    THEN LET possibleData ==
                 IF FieldTruthy(b.patients) THEN b.patients
                 ELSE IF FieldTruthy(b.results) THEN b.results
                 ELSE FList(<<>>)
         IN IF possibleData.k = "list" THEN possibleData.v ELSE <<>>
    ELSE <<>>

\* response.data.pagination
paginationOf(b) == IF b.t = "object" THEN b.pagination ELSE NoPagination

Abs(n) == IF n < 0 THEN 0 - n ELSE n

\* currentPage: the reported page when within 2 of the local page
currentPage_reported(b, p) ==
    LET reportedPage == paginationOf(b).page
    IN IF reportedPage.def THEN reportedPage.n ELSE p

currentPage(b, p) ==
    LET reportedPage == paginationOf(b).page
    IN IF reportedPage.def /\ Abs(reportedPage.n - p) <= 2
       THEN reportedPage.n ELSE p

hasMoreByPagination_inclusive(b, p) ==
    LET pg == paginationOf(b)
    IN pg.hasNext = "true"
       \/ (pg.totalPages.def /\ currentPage(b, p) <= pg.totalPages.n)

hasMoreByPagination(b, p) ==
    LET pg == paginationOf(b)
    IN pg.hasNext = "true"
       \/ (pg.totalPages.def /\ currentPage(b, p) < pg.totalPages.n)

hasMoreByCount(pageData, limit) == Len(pageData) >= limit

\* the value assigned to hasNext
hasMore_metadataOnly(b, p, limit) == hasMoreByPagination(b, p)

hasMore(b, p, limit) ==
    hasMoreByPagination(b, p) \/ hasMoreByCount(ExtractPage(b), limit)

\* page = Math.max(currentPage + 1, page + 1)
nextPage_plusOne(b, p) == p + 1

nextPage(b, p) == Max(currentPage(b, p) + 1, p + 1)

\* let safety = 100
SAFETY_LIMIT == 100

\* if (safety-- <= 0)
safetyExhausted_offByOne(s) == s < 0

safetyExhausted(s) == s <= 0

\* buildAlerts reads patient.patient_id of every element: it throws on null
buildAlertsThrows(list) == \E i \in 1..Len(list) : list[i] = NullElement

\* an error thrown out of the withRetry call of a "GET" or a "POST", out of
\* the loop body ("processPage") or out of "buildAlerts"
Thrown(e, by) == [err |-> e, by |-> by]
NoThrow == Thrown(NoError, "none")

\* where control goes when withRetry rethrows: neither fetchAllPatients,
\* submitAssessment nor runAssessment catches, so the run ends rejected
propagate_retryLoop(r) == IF r.method = "GET" THEN "loop" ELSE "failed"

propagate(r) == "failed"

NoTimer == [set |-> FALSE, ms |-> 0]
Timer(ms) == [set |-> TRUE, ms |-> ms]
NotReturned == [returned |-> FALSE, list |-> <<>>]
Returned(list) == [returned |-> TRUE, list |-> list]

\* the request r is no longer outstanding
RECURSIVE Without(_, _)
Without(q, r) ==
    IF q = <<>> THEN <<>>
    ELSE IF Head(q) = r THEN Tail(q)
    ELSE <<Head(q)>> \o Without(Tail(q), r)

\* a request that was rejected with e has ended: axios aborts a request
\* that reaches its timeout
settle_raceTimeout(q, r, e) ==
    IF isAxiosError(e) /\ ~e.hasResponse THEN q ELSE Without(q, r)

settle(q, r, e) == Without(q, r)

\* ------------------------------------------------------------- scoring

JSNull == JSValue("null", <<"n", "u", "l", "l">>, <<>>)
JSBoolean(b) == JSValue("boolean", IF b THEN <<"t", "r", "u", "e">> ELSE <<"f", "a", "l", "s", "e">>, <<>>)
JSObject == JSValue("object", <<"[", "o", "b", "j", "e", "c", "t", " ", "O", "b", "j", "e", "c", "t", "]">>, <<>>)

\* typeof v
TypeOf(v) == IF v.t \in {"null", "array"} THEN "object" ELSE v.t

UpperChars == <<"A", "B", "C", "D", "E", "F", "G", "H", "I", "J", "K", "L", "M", "N", "O", "P", "Q", "R", "S", "T", "U", "V", "W", "X", "Y", "Z">>
LowerChars == <<"a", "b", "c", "d", "e", "f", "g", "h", "i", "j", "k", "l", "m", "n", "o", "p", "q", "r", "s", "t", "u", "v", "w", "x", "y", "z">>

\* the characters of the model in the order of their UTF-16 code units
Alphabet ==
    <<" ", "+", "-", ".", "/">> \o DigitChars \o UpperChars \o <<"_">> \o LowerChars

\* the rank of c among the code units: what the default sort compares
CodeUnit(c) == CHOOSE i \in 1..Len(Alphabet) : Alphabet[i] = c

\* s.toLowerCase()
toLowerCase(s) ==
    [i \in 1..Len(s) |->
        IF \E k \in 1..Len(UpperChars) : UpperChars[k] = s[i]
        THEN LowerChars[CHOOSE k \in 1..Len(UpperChars) : UpperChars[k] = s[i]]
        ELSE s[i]]

RECURSIVE trimEnd(_)
trimEnd(s) ==
    IF s # <<>> /\ IsSpace(s[Len(s)]) THEN trimEnd(SubSeq(s, 1, Len(s) - 1)) ELSE s

\* s.trim()
trim(s) == trimEnd(SkipSpace(s))

\* s.split('/')
RECURSIVE split(_)
split(s) ==
    IF \E i \in 1..Len(s) : s[i] = "/"
    THEN LET i == CHOOSE j \in 1..Len(s) : s[j] = "/" /\ \A k \in 1..(j - 1) : s[k] # "/"
         IN <<SubSeq(s, 1, i - 1)>> \o split(SubSeq(s, i + 1, Len(s)))
    ELSE <<s>>

\* numbers are held in ten-thousandths: 99.6 is 996000
Scale == 10000

RECURSIVE Pow10(_)
Pow10(n) == IF n <= 0 THEN 1 ELSE 10 * Pow10(n - 1)

\* Number(s) for the decimal notation: white space around, an optional sign,
\* digits with an optional fraction; "" is 0. NaN stands for every result
\* that is not finite (NaN, Infinity), which no caller tells apart. Digits
\* after the fourth decimal are below the resolution and dropped.
Number(s) ==
    Bind(trim(s), LAMBDA t :
        IF t = <<>> THEN Finite(0)
        ELSE Bind(IF Head(t) \in {"-", "+"} THEN Tail(t) ELSE t, LAMBDA u :
             Bind(LeadingDigits(u, 0, 0), LAMBDA ip :
             Bind(SubSeq(u, ip.count + 1, Len(u)), LAMBDA rest :
             Bind(IF rest # <<>> /\ Head(rest) = "." THEN Tail(rest) ELSE <<>>, LAMBDA fs :
             Bind(LeadingDigits(fs, 0, 0), LAMBDA fp :
             Bind(LeadingDigits(SubSeq(fs, 1, Min(fp.count, 4)), 0, 0), LAMBDA kept :
                 LET hasDot == rest # <<>> /\ Head(rest) = "."
                     wellFormed ==
                         /\ ip.count + fp.count > 0
                         /\ IF hasDot THEN fp.count = Len(fs) ELSE rest = <<>>
                     mag == ip.n * Scale + kept.n * Pow10(4 - kept.count)
                 IN IF ~wellFormed THEN NaN
                    ELSE Finite(IF Head(t) = "-" THEN 0 - mag ELSE mag))))))))

\* the strings toFiniteNumber rejects by name
InvalidWords ==
    {<<"n", "u", "l", "l">>, <<"u", "n", "d", "e", "f", "i", "n", "e", "d">>, <<"n", "/", "a">>, <<"n", "a">>, <<"i", "n", "v", "a", "l", "i", "d">>, <<"t", "e", "m", "p", "_", "e", "r", "r", "o", "r">>, <<"e", "r", "r", "o", "r">>}

\* toFiniteNumber(value): null being the NaN record
toFiniteNumber(value) ==
    IF value.t \in {"undefined", "null"} THEN NaN
    ELSE IF value.t = "number" THEN Number(value.s)
    ELSE IF value.t # "string" THEN NaN
    ELSE Bind(trim(value.s), LAMBDA trimmed :
             IF trimmed = <<>> \/ toLowerCase(trimmed) \in InvalidWords THEN NaN
             ELSE Number(trimmed))

\* ScoreResult: value is absent when hasValue is FALSE
ScoreResult(score, valid) == [score |-> score, valid |-> valid, hasValue |-> FALSE, value |-> 0]
ScoreResultWith(score, value) == [score |-> score, valid |-> TRUE, hasValue |-> TRUE, value |-> value]
Invalid == ScoreResult(0, FALSE)

\* input === null || input === undefined || input === ''
isAbsent(input) ==
    input.t \in {"null", "undefined"} \/ (input.t = "string" /\ input.s = <<>>)

\* the range test and the stages of scoreBloodPressure, on the two numbers
bloodPressureStage_bothStage1(systolic, diastolic) ==
    LET systolicStage1 == systolic >= 130 * Scale /\ systolic <= 139 * Scale
        diastolicStage1 == diastolic >= 80 * Scale /\ diastolic <= 89 * Scale
    IN IF systolic < 0 \/ systolic > 300 * Scale
          \/ diastolic < 0 \/ diastolic > 200 * Scale
       THEN Invalid
       ELSE IF systolic >= 140 * Scale \/ diastolic >= 90 * Scale
       THEN ScoreResult(3, TRUE)
       ELSE IF systolicStage1 /\ diastolicStage1
       THEN ScoreResult(2, TRUE)
       ELSE IF systolic >= 120 * Scale /\ systolic <= 129 * Scale
               /\ diastolic < 80 * Scale
       THEN ScoreResult(1, TRUE)
       ELSE ScoreResult(0, TRUE)

bloodPressureStage(systolic, diastolic) ==
    LET systolicStage1 == systolic >= 130 * Scale /\ systolic <= 139 * Scale
        diastolicStage1 == diastolic >= 80 * Scale /\ diastolic <= 89 * Scale
    IN IF systolic < 0 \/ systolic > 300 * Scale
          \/ diastolic < 0 \/ diastolic > 200 * Scale
       THEN Invalid
       ELSE IF systolic >= 140 * Scale \/ diastolic >= 90 * Scale
       THEN ScoreResult(3, TRUE)
       ELSE IF systolicStage1 \/ diastolicStage1
       THEN ScoreResult(2, TRUE)
       ELSE IF systolic >= 120 * Scale /\ systolic <= 129 * Scale
               /\ diastolic < 80 * Scale
       THEN ScoreResult(1, TRUE)
       ELSE ScoreResult(0, TRUE)

scoreBloodPressure(input) ==
    IF isAbsent(input) THEN Invalid
    ELSE Bind(trim(ToStr(input)), LAMBDA trimmed :
         IF trimmed = <<>> \/ trimmed \in {<<"n", "u", "l", "l">>, <<"u", "n", "d", "e", "f", "i", "n", "e", "d">>}
            \/ toLowerCase(trimmed) = <<"n", "/", "a">>
         THEN Invalid
         ELSE Bind(split(trimmed), LAMBDA parts :
              IF Len(parts) # 2 THEN Invalid
              ELSE Bind(trim(parts[1]), LAMBDA rawSystolic :
                   Bind(trim(parts[2]), LAMBDA rawDiastolic :
                   IF rawSystolic = <<>> \/ rawDiastolic = <<>> THEN Invalid
                   ELSE Bind(toFiniteNumber(JSString(rawSystolic)), LAMBDA systolic :
                        Bind(toFiniteNumber(JSString(rawDiastolic)), LAMBDA diastolic :
                        IF systolic.nan \/ diastolic.nan THEN Invalid
                        ELSE bloodPressureStage(systolic.n, diastolic.n)))))))

\* 99.6 - 0.0001 evaluates to 99.59989999999999 and 100.9 + 0.0001 to
\* 100.90010000000001: of the readings with four decimals the first admits
\* 99.5999 and above, the second 100.9001 and below
LowFeverMin == 995999
LowFeverMax == 1009001

scoreTemperature_noEpsilon(input) ==
    IF isAbsent(input) THEN Invalid
    ELSE Bind(toFiniteNumber(input), LAMBDA temperature :
            IF temperature.nan THEN Invalid
            ELSE IF temperature.n >= 101 * Scale
            THEN ScoreResultWith(2, temperature.n)
            ELSE IF temperature.n < 80 * Scale \/ temperature.n > 115 * Scale
            THEN Invalid
            ELSE IF temperature.n >= 996000 /\ temperature.n <= 1009000
            THEN ScoreResultWith(1, temperature.n)
            ELSE ScoreResultWith(0, temperature.n))

scoreTemperature_rangeFirst(input) ==
    IF isAbsent(input) THEN Invalid
    ELSE Bind(toFiniteNumber(input), LAMBDA temperature :
            IF temperature.nan THEN Invalid
            ELSE IF temperature.n < 80 * Scale \/ temperature.n > 115 * Scale
            THEN Invalid
            ELSE IF temperature.n >= 101 * Scale
            THEN ScoreResultWith(2, temperature.n)
            ELSE IF temperature.n >= LowFeverMin /\ temperature.n <= LowFeverMax
            THEN ScoreResultWith(1, temperature.n)
            ELSE ScoreResultWith(0, temperature.n))

scoreTemperature(input) ==
    IF isAbsent(input) THEN Invalid
    ELSE Bind(toFiniteNumber(input), LAMBDA temperature :
            IF temperature.nan THEN Invalid
            ELSE IF temperature.n >= 101 * Scale
            THEN ScoreResultWith(2, temperature.n)
            ELSE IF temperature.n < 80 * Scale \/ temperature.n > 115 * Scale
            THEN Invalid
            ELSE IF temperature.n >= LowFeverMin /\ temperature.n <= LowFeverMax
            THEN ScoreResultWith(1, temperature.n)
            ELSE ScoreResultWith(0, temperature.n))

scoreAge_from65(input) ==
    IF isAbsent(input) THEN Invalid
    ELSE Bind(toFiniteNumber(input), LAMBDA age :
            IF age.nan THEN Invalid
            ELSE IF age.n < 0 \/ age.n > 150 * Scale \/ age.n % Scale # 0
            THEN Invalid
            ELSE IF age.n >= 65 * Scale THEN ScoreResult(2, TRUE)
            ELSE IF age.n >= 40 * Scale THEN ScoreResult(1, TRUE)
            ELSE ScoreResult(0, TRUE))

scoreAge(input) ==
    IF isAbsent(input) THEN Invalid
    ELSE Bind(toFiniteNumber(input), LAMBDA age :
            IF age.nan THEN Invalid
            ELSE IF age.n < 0 \/ age.n > 150 * Scale \/ age.n % Scale # 0
            THEN Invalid
            ELSE IF age.n > 65 * Scale THEN ScoreResult(2, TRUE)
            ELSE IF age.n >= 40 * Scale THEN ScoreResult(1, TRUE)
            ELSE ScoreResult(0, TRUE))

\* a PatientRecord; an element of the collection may also be JSON null
PatientRecord(id, bp, temp, age) ==
    [isNull |-> FALSE, patient_id |-> id, blood_pressure |-> bp,
     temperature |-> temp, age |-> age]
NullPatient ==
    [isNull |-> TRUE, patient_id |-> JSUndefined, blood_pressure |-> JSUndefined,
     temperature |-> JSUndefined, age |-> JSUndefined]

\* temperatureScore.value >= 99.6
FeverThreshold == 996000

PatientRiskProfile(id, bp, temp, age, total, fever, issue, hasValue, value) ==
    [built |-> TRUE, patientId |-> id, bpScore |-> bp, temperatureScore |-> temp,
     ageScore |-> age, totalScore |-> total, hasFever |-> fever,
     hasDataQualityIssue |-> issue, hasTemperatureValue |-> hasValue,
     temperatureValue |-> value]
NoProfile ==
    [built |-> FALSE, patientId |-> JSUndefined, bpScore |-> 0, temperatureScore |-> 0,
     ageScore |-> 0, totalScore |-> 0, hasFever |-> FALSE,
     hasDataQualityIssue |-> FALSE, hasTemperatureValue |-> FALSE,
     temperatureValue |-> 0]

\* the three ScoreResults buildRiskProfile works with
Scores(bp, temperature, age) == [bp |-> bp, temperature |-> temperature, age |-> age]
NoScores == Scores(Invalid, Invalid, Invalid)

scoresOf(p) ==
    Scores(scoreBloodPressure(p.blood_pressure), scoreTemperature(p.temperature),
           scoreAge(p.age))

totalScoreOf_twice(sc) ==
    sc.bp.score + sc.temperature.score + sc.temperature.score + sc.age.score

totalScoreOf(sc) == sc.bp.score + sc.temperature.score + sc.age.score

hasDataQualityIssueOf_all(sc) ==
    ~sc.bp.valid /\ ~sc.temperature.valid /\ ~sc.age.valid

hasDataQualityIssueOf(sc) ==
    ~sc.bp.valid \/ ~sc.temperature.valid \/ ~sc.age.valid

hasFeverOf_byScore(temperatureScore) ==
    temperatureScore.valid /\ temperatureScore.score >= 1

hasFeverOf(temperatureScore) ==
    /\ temperatureScore.valid
    /\ temperatureScore.hasValue
    /\ temperatureScore.value >= FeverThreshold

buildRiskProfile(p) ==
    Bind(scoresOf(p), LAMBDA sc :
        PatientRiskProfile(p.patient_id, sc.bp.score, sc.temperature.score,
                           sc.age.score, totalScoreOf(sc), hasFeverOf(sc.temperature),
                           hasDataQualityIssueOf(sc), sc.temperature.hasValue,
                           sc.temperature.value))

skipsPatient_falsy(patientId) ==
    \/ ~Truthy(patientId)
    \/ TypeOf(patientId) \notin {"string", "number", "boolean"}
    \/ (TypeOf(patientId) = "string" /\ trim(patientId.s) = <<>>)
    \/ (TypeOf(patientId) = "number"
        /\ (Number(patientId.s).nan \/ Number(patientId.s).n < 0))

\* the tests of buildAlerts that end in continue
skipsPatient(patientId) ==
    \/ patientId.t \in {"null", "undefined"}
    \/ TypeOf(patientId) \notin {"string", "number", "boolean"}
    \/ (TypeOf(patientId) = "string" /\ trim(patientId.s) = <<>>)
    \/ (TypeOf(patientId) = "boolean" /\ patientId = JSBoolean(FALSE))
    \/ (TypeOf(patientId) = "number"
        /\ (Number(patientId.s).nan \/ Number(patientId.s).n < 0))

SetAdd_noDedupe(set, s) == Append(set, s)

\* set.add(s) on a Set that keeps its insertion order
SetAdd(set, s) ==
    IF \E i \in 1..Len(set) : set[i] = s THEN set ELSE Append(set, s)

\* a < b in the order of the default sort: by code units, a prefix first
RECURSIVE StrLess(_, _)
StrLess(a, b) ==
    IF b = <<>> THEN FALSE
    ELSE IF a = <<>> THEN TRUE
    ELSE IF Head(a) = Head(b) THEN StrLess(Tail(a), Tail(b))
    ELSE CodeUnit(Head(a)) < CodeUnit(Head(b))

RECURSIVE InsertSorted(_, _)
InsertSorted(sorted, s) ==
    IF sorted = <<>> THEN <<s>>
    ELSE IF StrLess(s, Head(sorted)) THEN <<s>> \o sorted
    ELSE <<Head(sorted)>> \o InsertSorted(Tail(sorted), s)

\* Array.from(set).sort()
RECURSIVE sort(_)
sort(a) ==
    IF a = <<>> THEN <<>>
    ELSE Bind(sort(Tail(a)), LAMBDA sorted : InsertSorted(sorted, Head(a)))

\* the value buildAlerts returned, or that it threw
AlertsPayload(high, fever, issues) ==
    [returned |-> TRUE, threw |-> FALSE, high_risk_patients |-> high,
     fever_patients |-> fever, data_quality_issues |-> issues]
NoAlerts ==
    [returned |-> FALSE, threw |-> FALSE, high_risk_patients |-> <<>>,
     fever_patients |-> <<>>, data_quality_issues |-> <<>>]
AlertsThrew ==
    [returned |-> FALSE, threw |-> TRUE, high_risk_patients |-> <<>>,
     fever_patients |-> <<>>, data_quality_issues |-> <<>>]

\* ------------------------------------------------------- the remote API

\* the errors the remote API answers a request with
HeaderErrors ==
    {HttpError(429, JSString(h), JSUndefined, NoBody) :
        h \in {<<"5">>, <<"0">>, <<"3", "6", "0", "0">>, <<"3", "6", "0", "1">>,
               <<"a", "b", "c">>, <<"3", ".", "5">>, <<"0", ".", "5">>,
               <<"-", "1">>, <<"5", "s">>}}
    \cup {HttpError(429, JSUndefined, JSString(<<"7">>), NoBody),
          HttpError(429, JSString(<<>>), JSString(<<"7">>), NoBody),
          HttpError(429, JSString(<<"a", "b", "c">>), JSString(<<"7">>), NoBody),
          HttpError(429, JSArray(<<JSString(<<"5">>)>>), JSUndefined, NoBody),
          HttpError(429, JSArray(<<>>), JSUndefined, NoBody),
          HttpError(503, JSString(<<"5">>), JSUndefined, NoBody)}

BodyErrors ==
    {HttpError(429, JSUndefined, JSUndefined, b) :
        b \in {NoBody, TextBody,
               ObjBody(JSUndefined, JSUndefined, JSUndefined, JSUndefined),
               ObjBody(JSNumber(<<"6">>), JSUndefined, JSUndefined, JSUndefined),
               ObjBody(JSNumber(<<"0">>), JSNumber(<<"6">>), JSUndefined, JSUndefined),
               ObjBody(JSUndefined, JSUndefined, JSString(<<"6">>), JSUndefined),
               ObjBody(JSUndefined, JSUndefined, JSUndefined, JSNumber(<<"6">>)),
               ObjBody(JSNumber(<<"0", ".", "5">>), JSUndefined, JSUndefined, JSUndefined),
               ObjBody(JSNumber(<<"3", ".", "5">>), JSUndefined, JSUndefined, JSUndefined),
               ObjBody(JSString(<<"s", "o", "o", "n">>), JSNumber(<<"6">>), JSUndefined, JSUndefined)}}
    \cup {HttpError(429, JSString(<<"5">>), JSUndefined,
                    ObjBody(JSNumber(<<"6">>), JSUndefined, JSUndefined, JSUndefined)),
          HttpError(429, JSString(<<"0">>), JSUndefined,
                    ObjBody(JSNumber(<<"6">>), JSUndefined, JSUndefined, JSUndefined))}

StatusErrors ==
    {HttpError(st, JSUndefined, JSUndefined, NoBody) :
        st \in {304, 400, 401, 404, 499, 500, 503, 599, 600}}
    \cup {NetworkError,
          ErrorValue("Error", FALSE, 0, JSUndefined, JSUndefined, NoBody)}

Errors == HeaderErrors \cup BodyErrors \cup StatusErrors

\* the lists a page may hold
Lens(limit, room) == {n \in {0, limit - 1, limit, limit + 1} : n >= 0 /\ n <= room}
Room == MaxRecords - Len(patients)

PageNums(p) == {PUndef} \cup {PNum(p + d) : d \in {0 - 3, 0 - 2, 0, 2, 3}}
Totals(p) == {PUndef} \cup {PNum(p + d) : d \in {0 - 1, 1, 3}}
Paginations(p) ==
    {NoPagination}
    \cup {Pagination(a, b, c) :
            a \in PageNums(p), b \in Totals(p), c \in {"true", "false", "undefined"}}

DataBody(list, pg) == Body("object", FList(list), FUndef, FUndef, <<>>, pg)

\* the bodies of a well-behaved API: the list under data, consistent metadata
SimpleResponses(r) ==
    {DataBody(PageList(r.page, n, bad),
              Pagination(PNum(r.page), PNum(t), IF r.page < t THEN "true" ELSE "false")) :
        n \in {m \in {0, 1} : m <= Room /\ m < r.limit}, bad \in BOOLEAN,
        t \in {r.page, r.page + 1}}

\* the bodies of an API that answers in any of the shapes, with any metadata
ShapeBodies(list, other, pg) ==
    {Body("array", FUndef, FUndef, FUndef, list, NoPagination),
     Body("object", FUndef, FList(list), FUndef, <<>>, pg),
     Body("object", FUndef, FUndef, FList(list), <<>>, pg),
     Body("object", FUndef, FFalsy, FList(list), <<>>, pg),
     Body("object", FUndef, FTruthy, FList(list), <<>>, pg),
     Body("object", FList(list), FList(other), FList(other), <<>>, pg),
     Body("object", FTruthy, FList(list), FList(other), <<>>, pg),
     Body("object", FUndef, FList(list), FList(other), <<>>, pg),
     Body("object", FUndef, FUndef, FUndef, <<>>, pg),
     Body("string", FUndef, FUndef, FUndef, <<>>, NoPagination),
     Body("null", FUndef, FUndef, FUndef, <<>>, NoPagination)}

AnyResponses(r) ==
    {DataBody(PageList(r.page, n, FALSE), pg) :
        n \in Lens(r.limit, Room), pg \in Paginations(r.page)}
    \cup UNION {ShapeBodies(PageList(r.page, n, FALSE), <<Record(0, 1)>>, pg) :
                  n \in Lens(r.limit, Room),
                  pg \in {NoPagination,
                          Pagination(PNum(r.page), PNum(r.page + 1), "false")}}

\* the bodies of an API that never stops announcing more data
EndlessResponses(r) ==
    {DataBody(PageList(r.page, n, FALSE), pg) :
        n \in {m \in Lens(r.limit, Room) : m = 0 \/ served < MaxPages},
        pg \in {NoPagination,
                Pagination(PNum(r.page), PUndef, "true"),
                Pagination(PUndef, PNum(r.page + 1), "false"),
                Pagination(PNum(r.page), PNum(r.page), "false")}}
    \cup {DataBody(<<>>, Pagination(PNum(r.page + 2), PUndef, "true")) :
            x \in {y \in {0} : served < MaxPages}}

ListOf(f) == IF f.k = "list" THEN f.v ELSE <<>>

\* a remote API that holds n pages, the last one of k records
Catalog(n, k) == [pages |-> n, last |-> k]
NoCatalog == Catalog(0, 0)

\* the body such an API answers the request r with: limit records on a page
\* before the last, and the page, the number of pages and hasNext as they are
CatalogPage(sv, r) ==
    DataBody(PageList(r.page,
                      IF r.page < sv.pages THEN r.limit
                      ELSE IF r.page = sv.pages THEN sv.last ELSE 0,
                      FALSE),
             Pagination(PNum(r.page), PNum(sv.pages),
                        IF r.page < sv.pages THEN "true" ELSE "false"))

\* a body that announces no further data, whatever the page it answers
IsFinal(b, limit) ==
    /\ b.pagination.hasNext # "true"
    /\ ~b.pagination.totalPages.def
    /\ \A l \in {b.items, ListOf(b.data), ListOf(b.patients), ListOf(b.results)} :
          Len(l) < limit

\* --------------------------------------------------------------- the run

\* withRetry is entered with request r: attempt = 0 and fn() is invoked
startCall(r) ==
    /\ req' = r
    /\ inflight' = Append(inflight, r)
    /\ attempt' = 0
    /\ delay' = 0
    /\ delayKind' = "none"
    /\ calls' = 1
    /\ sleeps' = 0
    /\ pc' = "await"

\* runAssessment calls fetchAllPatients, which sets up its locals
runAssessment ==
    /\ pc = "idle"
    /\ patients' = <<>>
    /\ page' = 1
    /\ hasNext' = TRUE
    /\ safety' = SAFETY_LIMIT
    /\ pc' = "loop"
    /\ UNCHANGED <<scoringVars, server>>
    /\ UNCHANGED <<cfg, req, inflight, response, error, attempt, delay, delayKind,
                   timer, fetched, payload, thrown, served, failBudget, calls,
                   sleeps, iterations, posts>>

\* while (hasNext) with the safety counter left: the GET of the page is issued
fetchNextPage ==
    /\ pc = "loop"
    /\ hasNext
    /\ ~safetyExhausted(safety)
    /\ safety' = safety - 1
    /\ iterations' = iterations + 1
    /\ response' = NoResponse
    /\ startCall(GetRequest(page, cfg.limit))
    /\ UNCHANGED <<scoringVars, server>>
    /\ UNCHANGED <<cfg, error, timer, patients, page, hasNext, fetched, payload,
                   thrown, served, failBudget, posts>>

\* the loop ends: fetchAllPatients returns, runAssessment builds the alerts
\* and submitAssessment issues the POST
fetchReturns ==
    /\ pc = "loop"
    /\ ~hasNext \/ safetyExhausted(safety)
    /\ safety' = IF hasNext THEN safety - 1 ELSE safety
    /\ fetched' = Returned(patients)
    /\ response' = NoResponse
    /\ IF buildAlertsThrows(patients)
       THEN /\ pc' = "failed"
            /\ thrown' = Thrown(TypeError, "buildAlerts")
            /\ UNCHANGED <<req, inflight, attempt, delay, delayKind, calls, sleeps,
                           payload, posts>>
       ELSE /\ payload' = Returned(patients)
            /\ posts' = posts + 1
            /\ startCall(PostRequest)
            /\ UNCHANGED thrown
    /\ UNCHANGED <<scoringVars, server>>
    /\ UNCHANGED <<cfg, error, timer, patients, page, hasNext, served, failBudget,
                   iterations>>

\* the outstanding request is rejected with an error
requestFails ==
    /\ pc = "await"
    /\ inflight # <<>>
    /\ failBudget > 0
    /\ \E e \in Errors :
         /\ error' = e
         /\ inflight' = settle(inflight, req, e)
    /\ failBudget' = failBudget - 1
    /\ pc' = "catch"
    /\ UNCHANGED <<scoringVars, server>>
    /\ UNCHANGED <<cfg, req, response, attempt, delay, delayKind, timer, patients,
                   page, hasNext, safety, fetched, payload, thrown, served, calls,
                   sleeps, iterations, posts>>

\* withRetry's catch block: rethrow, or compute the delay and sleep
handleError ==
    /\ pc = "catch"
    /\ attempt' = attempt + 1
    /\ error' = NoError
    /\ IF shouldThrow(attempt + 1, error)
       THEN /\ pc' = propagate(req)
            /\ thrown' = Thrown(error, req.method)
            /\ UNCHANGED <<delay, delayKind, timer, sleeps>>
       ELSE /\ \E jitter \in JitterSamples :
                 delay' = IF isRateLimit(error)
                          THEN rateLimitDelay(error, attempt + 1)
                          ELSE backoffDelay(attempt + 1, jitter)
            /\ delayKind' = IF isRateLimit(error) THEN "rateLimit" ELSE "backoff"
            /\ timer' = Timer(delay')
            /\ sleeps' = sleeps + 1
            /\ pc' = "sleep"
            /\ UNCHANGED thrown
    /\ UNCHANGED <<scoringVars, server>>
    /\ UNCHANGED <<cfg, req, inflight, response, patients, page, hasNext, safety,
                   fetched, payload, served, failBudget, calls, iterations, posts>>

\* sleep(delay) is over: the loop of withRetry invokes fn() again
retryTimerFires ==
    /\ pc = "sleep"
    /\ timer.set
    /\ timer' = NoTimer
    /\ inflight' = Append(inflight, req)
    /\ calls' = calls + 1
    /\ pc' = "await"
    /\ UNCHANGED <<scoringVars, server>>
    /\ UNCHANGED <<cfg, req, response, error, attempt, delay, delayKind, patients,
                   page, hasNext, safety, fetched, payload, thrown, served,
                   failBudget, sleeps, iterations, posts>>

\* the GET is answered with body b
deliver(b) ==
    /\ pc = "await"
    /\ req.method = "GET"
    /\ inflight # <<>>
    /\ response' = b
    /\ inflight' = Without(inflight, req)
    /\ served' = served + 1
    /\ pc' = "process"
    /\ UNCHANGED <<scoringVars, server>>
    /\ UNCHANGED <<cfg, req, error, attempt, delay, delayKind, timer, patients,
                   page, hasNext, safety, fetched, payload, thrown, failBudget,
                   calls, sleeps, iterations, posts>>

\* whether the remote API may still announce more data
mayGoOn(b) == served >= MaxPages => IsFinal(b, req.limit)

pageArrives == \E b \in SimpleResponses(req) : mayGoOn(b) /\ deliver(b)

anyPageArrives == \E b \in AnyResponses(req) : mayGoOn(b) /\ deliver(b)

endlessPageArrives == \E b \in EndlessResponses(req) : deliver(b)

catalogPageArrives == deliver(CatalogPage(server, req))

\* the rest of the loop body, from the shape tests to the inter-page sleep
processPage ==
    /\ pc = "process"
    /\ IF bodyThrows(response)
       THEN /\ pc' = "failed"
            /\ thrown' = Thrown(TypeError, "processPage")
            /\ UNCHANGED <<patients, page, hasNext, timer>>
       ELSE /\ patients' = patients \o ExtractPage(response)
            /\ hasNext' = hasMore(response, page, req.limit)
            /\ page' = nextPage(response, page)
            /\ IF hasNext'
               THEN timer' = Timer(cfg.pageDelay) /\ pc' = "pagesleep"
               ELSE timer' = timer /\ pc' = "loop"
            /\ UNCHANGED thrown
    /\ UNCHANGED <<scoringVars, server>>
    /\ UNCHANGED <<cfg, req, inflight, response, error, attempt, delay, delayKind,
                   safety, fetched, payload, served, failBudget, calls, sleeps,
                   iterations, posts>>

\* sleep(PAGE_REQUEST_DELAY_MS) is over
pageTimerFires ==
    /\ pc = "pagesleep"
    /\ timer.set
    /\ timer' = NoTimer
    /\ pc' = "loop"
    /\ UNCHANGED <<scoringVars, server>>
    /\ UNCHANGED <<cfg, req, inflight, response, error, attempt, delay, delayKind,
                   patients, page, hasNext, safety, fetched, payload, thrown,
                   served, failBudget, calls, sleeps, iterations, posts>>

\* the POST is answered: submitAssessment and runAssessment return
submitSucceeds ==
    /\ pc = "await"
    /\ req.method = "POST"
    /\ inflight # <<>>
    /\ inflight' = Without(inflight, req)
    /\ pc' = "done"
    /\ UNCHANGED <<scoringVars, server>>
    /\ UNCHANGED <<cfg, req, response, error, attempt, delay, delayKind, timer,
                   patients, page, hasNext, safety, fetched, payload, thrown,
                   served, failBudget, calls, sleeps, iterations, posts>>

\* ------------------------------------------------- the scoring functions

\* the three insertions of an iteration of buildAlerts
highRiskAfter_above4(set, pr) ==
    IF pr.totalScore > 4 THEN SetAdd(set, ToStr(pr.patientId)) ELSE set

highRiskAfter(set, pr) ==
    IF pr.totalScore >= 4 THEN SetAdd(set, ToStr(pr.patientId)) ELSE set

feverAfter(set, pr) ==
    IF pr.hasFever THEN SetAdd(set, ToStr(pr.patientId)) ELSE set

dataQualityAfter(set, pr) ==
    IF pr.hasDataQualityIssue THEN SetAdd(set, ToStr(pr.patientId)) ELSE set

\* the blood pressures, temperatures and ages of the sampled records
BloodPressures ==
    {JSString(b) : b \in
        {<<"1", "4", "5", "/", "9", "5">>, <<"1", "3", "5", "/", "8", "5">>, <<"1", "2", "5", "/", "7", "5">>, <<"1", "1", "5", "/", "7", "0">>, <<"1", "5", "0", "/">>, <<"/", "9", "0">>, <<"n", "o", "t", "/", "v", "a", "l", "i", "d">>,
         <<"1", "2", "0", "/", "8", "0">>, <<"1", "1", "9", "/", "7", "9">>, <<"1", "2", "9", "/", "7", "9">>, <<"1", "2", "9", "/", "8", "0">>, <<"1", "3", "0", "/", "7", "0">>, <<"1", "3", "9", "/", "8", "9">>, <<"1", "4", "0", "/", "7", "0">>,
         <<"1", "1", "0", "/", "9", "0">>, <<"1", "3", "9", ".", "5", "/", "7", "0">>, <<"1", "2", "9", ".", "5", "/", "7", "9">>, <<"3", "0", "1", "/", "8", "0">>, <<"3", "0", "0", "/", "2", "0", "0">>, <<"1", "2", "0", "/", "2", "0", "1">>,
         <<"-", "1", "/", "8", "0">>, <<"1", "2", "0", "/", "-", "1">>, <<"0", "/", "0">>, <<"1", "2", "0", "/", "8", "0", "/", "1">>, <<"n", "/", "a">>, <<"N", "/", "A">>, <<" ", "1", "2", "0", " ", "/", " ", "8", "0", " ">>,
         <<"1", "2", "0">>, <<"n", "u", "l", "l">>, <<"/">>, <<>>, <<" ">>}}
    \cup {JSUndefined, JSNull, JSNumber(<<"1", "2", "0">>)}

Temperatures ==
    {JSNumber(t) : t \in
        {<<"1", "0", "3", ".", "5">>, <<"1", "0", "0">>, <<"9", "9", ".", "6">>, <<"9", "9", ".", "5", "9", "9", "9">>, <<"9", "9", ".", "5", "9", "9", "8">>, <<"9", "9", ".", "5", "9", "9", "7">>, <<"9", "9", ".", "5", "9", "9", "6">>,
         <<"9", "9", ".", "5", "9", "9", "5">>, <<"9", "9", ".", "5">>, <<"1", "0", "0", ".", "9">>, <<"1", "0", "0", ".", "9", "0", "0", "1">>, <<"1", "0", "0", ".", "9", "0", "0", "2">>, <<"1", "0", "0", ".", "9", "0", "0", "4">>,
         <<"1", "0", "0", ".", "9", "0", "0", "5">>, <<"1", "0", "0", ".", "9", "9", "9", "9">>, <<"1", "0", "0", ".", "9", "5">>, <<"1", "0", "1">>, <<"9", "8", ".", "6">>, <<"8", "0">>, <<"7", "9", ".", "9", "9", "9", "9">>, <<"1", "1", "5">>,
         <<"1", "1", "5", ".", "0", "0", "0", "1">>, <<"2", "0", "0">>, <<"1", "0", "0", "0", "0", "0">>, <<"-", "5">>, <<"0">>, <<"N", "a", "N">>, <<"I", "n", "f", "i", "n", "i", "t", "y">>}}
    \cup {JSString(t) : t \in
            {<<"T", "E", "M", "P", "_", "E", "R", "R", "O", "R">>, <<"1", "0", "1", ".", "5">>, <<" ", "9", "9", ".", "6", " ">>, <<"9", "9", ".", "5", "9", "9", "9">>, <<"2", "0", "0">>, <<"a", "b", "c">>, <<"i", "n", "v", "a", "l", "i", "d">>,
             <<>>}}
    \cup {JSUndefined, JSNull, JSBoolean(TRUE), JSObject}

Ages ==
    {JSNumber(a) : a \in {<<"7", "0">>, <<"6", "6">>, <<"6", "5">>, <<"4", "0">>, <<"3", "9">>, <<"0">>, <<"-", "1">>, <<"1", "5", "0">>, <<"1", "5", "1">>, <<"4", "5", ".", "5">>,
         <<"2", "0", "0">>, <<"4", "5">>, <<"3", "0">>}}
    \cup {JSString(<<"4", "5">>), JSString(<<"6", "6">>), JSString(<<"a", "b", "c">>),
          JSUndefined, JSNull}

\* the records buildRiskProfile is applied to
ProfileInputs ==
    {PatientRecord(JSString(<<"P", "1">>), bp, t, a) :
        bp \in BloodPressures,
        t \in {JSNumber(<<"9", "8", ".", "6">>), JSNumber(<<"1", "0", "0">>), JSString(<<"T", "E", "M", "P", "_", "E", "R", "R", "O", "R">>)},
        a \in {JSNumber(<<"3", "0">>), JSNumber(<<"7", "0">>), JSUndefined}}
    \cup {PatientRecord(JSString(<<"P", "1">>), bp, t, a) :
            bp \in {JSString(<<"1", "1", "5", "/", "7", "0">>), JSString(<<"1", "5", "0", "/">>)},
            t \in Temperatures, a \in Ages}

\* clinical fields: high risk with fever (3 + 2 + 2), a total score of
\* exactly 4 without fever, fever only, a data-quality issue only, none
HighRiskFever == <<JSString(<<"1", "4", "5", "/", "9", "5">>), JSNumber(<<"1", "0", "3", ".", "5">>), JSNumber(<<"7", "0">>)>>
ScoreFour == <<JSString(<<"1", "4", "5", "/", "9", "5">>), JSNumber(<<"9", "8", ".", "6">>), JSNumber(<<"4", "5">>)>>
FeverOnly == <<JSString(<<"1", "1", "5", "/", "7", "0">>), JSNumber(<<"1", "0", "0">>), JSNumber(<<"3", "0">>)>>
IssueOnly == <<JSUndefined, JSNumber(<<"9", "8", ".", "6">>), JSNumber(<<"3", "0">>)>>
Healthy == <<JSString(<<"1", "1", "5", "/", "7", "0">>), JSNumber(<<"9", "8", ".", "6">>), JSNumber(<<"3", "0">>)>>

WithId(id, c) == PatientRecord(id, c[1], c[2], c[3])

\* the identifiers buildAlerts skips
SkippedIds ==
    {JSNull, JSUndefined, JSObject, JSArray(<<JSString(<<"1">>)>>), JSString(<<>>),
     JSString(<<" ", " ">>), JSBoolean(FALSE), JSNumber(<<"-", "1">>), JSNumber(<<"N", "a", "N">>),
     JSNumber(<<"I", "n", "f", "i", "n", "i", "t", "y">>)}

\* the elements of the collections buildAlerts is called with
AlertInputs ==
    {WithId(JSNumber(<<"1">>), ScoreFour),
     WithId(JSString(<<"1">>), IssueOnly),
     WithId(JSString(<<"1">>), HighRiskFever),
     WithId(JSString(<<"1", "0">>), HighRiskFever),
     WithId(JSString(<<"2">>), HighRiskFever),
     WithId(JSString(<<"2">>), Healthy),
     WithId(JSNumber(<<"0">>), HighRiskFever),
     WithId(JSNumber(<<"0">>), IssueOnly),
     WithId(JSString(<<"B">>), FeverOnly),
     WithId(JSString(<<"a">>), FeverOnly),
     WithId(JSString(<<" ", "1">>), IssueOnly),
     WithId(JSBoolean(TRUE), HighRiskFever)}
    \cup {WithId(id, HighRiskFever) : id \in SkippedIds}
    \cup {WithId(JSNumber(<<"-", "1">>), IssueOnly), WithId(JSString(<<>>), IssueOnly)}
    \cup {PatientRecord(JSString(<<"3">>), JSString(<<"1", "4", "5", "/", "9", "5">>), JSString(<<"T", "E", "M", "P", "_", "E", "R", "R", "O", "R">>), JSNumber(<<"7", "0">>)),
          PatientRecord(JSString(<<"3">>), JSString(<<"1", "5", "0", "/">>), JSNumber(<<"1", "0", "3", ".", "5">>), JSNumber(<<"7", "0">>)),
          PatientRecord(JSString(<<"4">>), JSString(<<"1", "1", "5", "/", "7", "0">>), JSNull, JSString(<<"a", "b", "c">>)),
          PatientRecord(JSString(<<"4">>), JSUndefined, JSUndefined, JSUndefined),
          PatientRecord(JSNumber(<<"5">>), JSString(<<"n", "o", "t", "/", "v", "a", "l", "i", "d">>), JSNumber(<<"N", "a", "N">>), JSNull),
          PatientRecord(JSString(<<"4">>), JSString(<<"/", "9", "0">>), JSString(<<>>), JSString(<<>>))}
    \cup {NullPatient}

\* buildRiskProfile is called with a record
profilePatient ==
    /\ ~profile.built
    /\ records = <<>>
    /\ \E p \in ProfileInputs :
         /\ patient' = p
         /\ scores' = scoresOf(p)
         /\ profile' = buildRiskProfile(p)
    /\ UNCHANGED <<records, highRiskPatients, feverPatients, dataQualityIssues,
                   alerts, collection, previous>>
    /\ UNCHANGED runVars

\* the element p of the array after an iteration over it: the loop body reads
\* patient.patient_id and hands patient to buildRiskProfile, which reads three
\* more fields; neither assigns to the element
visited_cleared(p) == [p EXCEPT !.temperature = JSUndefined]
visited(p) == p

\* one iteration of the loop of buildAlerts, over the next element p of the
\* collection: p.patient_id throws on a null element. The first call of the
\* caller passes an array of any elements, a later call the same array
buildAlertsIteration ==
    /\ ~alerts.returned
    /\ ~alerts.threw
    /\ Len(records) < (IF previous.returned THEN Len(collection) ELSE MaxPatients)
    /\ \E p \in (IF previous.returned THEN {collection[Len(records) + 1]}
                                      ELSE AlertInputs) :
         /\ records' = Append(records, p)
         /\ collection' = IF previous.returned
                          THEN [collection EXCEPT ![Len(records) + 1] = visited(p)]
                          ELSE Append(collection, visited(p))
         /\ patient' = p
         /\ IF p.isNull
            THEN /\ alerts' = AlertsThrew
                 /\ scores' = NoScores
                 /\ profile' = NoProfile
                 /\ UNCHANGED <<highRiskPatients, feverPatients, dataQualityIssues>>
            ELSE IF skipsPatient(p.patient_id)
            THEN /\ scores' = NoScores
                 /\ profile' = NoProfile
                 /\ UNCHANGED <<highRiskPatients, feverPatients, dataQualityIssues,
                                alerts>>
            ELSE /\ scores' = scoresOf(p)
                 /\ profile' = buildRiskProfile(p)
                 /\ highRiskPatients' = highRiskAfter(highRiskPatients, profile')
                 /\ feverPatients' = feverAfter(feverPatients, profile')
                 /\ dataQualityIssues' = dataQualityAfter(dataQualityIssues, profile')
                 /\ UNCHANGED alerts
    /\ UNCHANGED previous
    /\ UNCHANGED runVars

\* the collection is exhausted: the three sets are sorted and returned
buildAlertsReturns ==
    /\ ~alerts.returned
    /\ ~alerts.threw
    /\ ~profile.built \/ records # <<>>
    /\ previous.returned => Len(records) = Len(collection)
    /\ alerts' = AlertsPayload(sort(highRiskPatients), sort(feverPatients),
                               sort(dataQualityIssues))
    /\ UNCHANGED <<records, patient, scores, profile, highRiskPatients,
                   feverPatients, dataQualityIssues, collection, previous>>
    /\ UNCHANGED runVars

\* the caller calls buildAlerts a second time, with the array it passed
\* before: the call starts with three new Sets
buildAlertsAgain ==
    /\ alerts.returned
    /\ ~previous.returned
    /\ previous' = alerts
    /\ alerts' = NoAlerts
    /\ records' = <<>>
    /\ patient' = NullPatient
    /\ scores' = NoScores
    /\ profile' = NoProfile
    /\ highRiskPatients' = <<>>
    /\ feverPatients' = <<>>
    /\ dataQualityIssues' = <<>>
    /\ UNCHANGED collection
    /\ UNCHANGED runVars

\* ------------------------------------------------------- specifications

\* the environments the configuration is loaded from
RetryEnvs ==
    {Env(JSString(<<"2">>), JSUndefined, JSUndefined, JSUndefined, JSUndefined),
     Env(JSString(<<"2">>), JSString(<<"3">>), JSString(<<"1", "0", "0">>),
         JSUndefined, JSUndefined),
     Env(JSString(<<"2">>), JSString(<<"3">>), JSString(<<"2", "0", "0">>),
         JSString(<<"4", "5", "0">>), JSString(<<"3", "0", "0">>))}

PagingEnvs ==
    {Env(JSString(<<"2">>), JSUndefined, JSUndefined, JSUndefined, JSUndefined)}

InitRun(envs, budget) ==
    /\ cfg \in {LoadConfig(e) : e \in envs}
    /\ pc = "idle"
    /\ req = NoRequest
    /\ inflight = <<>>
    /\ response = NoResponse
    /\ error = NoError
    /\ attempt = 0
    /\ delay = 0
    /\ delayKind = "none"
    /\ timer = NoTimer
    /\ patients = <<>>
    /\ page = 1
    /\ hasNext = TRUE
    /\ safety = SAFETY_LIMIT
    /\ fetched = NotReturned
    /\ payload = NotReturned
    /\ thrown = NoThrow
    /\ served = 0
    /\ failBudget = budget
    /\ calls = 0
    /\ sleeps = 0
    /\ iterations = 0
    /\ posts = 0
    /\ records = <<>>
    /\ patient = NullPatient
    /\ scores = NoScores
    /\ profile = NoProfile
    /\ highRiskPatients = <<>>
    /\ feverPatients = <<>>
    /\ dataQualityIssues = <<>>
    /\ alerts = NoAlerts
    /\ collection = <<>>
    /\ previous = NoAlerts

\* the run against an API that fails at will and pages consistently
Init == InitRun(RetryEnvs, MaxFailures) /\ server = NoCatalog

Next ==
    \/ runAssessment
    \/ fetchNextPage
    \/ fetchReturns
    \/ requestFails
    \/ handleError
    \/ retryTimerFires
    \/ pageArrives
    \/ processPage
    \/ pageTimerFires
    \/ submitSucceeds

Spec == Init /\ [][Next]_vars

\* the run against an API that never fails and answers in any shape
InitPaging == InitRun(PagingEnvs, 0) /\ server = NoCatalog

NextPaging ==
    \/ runAssessment
    \/ fetchNextPage
    \/ fetchReturns
    \/ anyPageArrives
    \/ processPage
    \/ pageTimerFires
    \/ submitSucceeds

SpecPaging == InitPaging /\ [][NextPaging]_vars

\* the run against an API that never fails and may announce more data for ever
NextCap ==
    \/ runAssessment
    \/ fetchNextPage
    \/ fetchReturns
    \/ endlessPageArrives
    \/ processPage
    \/ pageTimerFires
    \/ submitSucceeds

SpecCap == InitPaging /\ [][NextCap]_vars

\* the run against an API that never fails and holds a number of full pages
\* and a last page that is not full
InitCatalog ==
    /\ InitRun(PagingEnvs, 0)
    /\ server \in {Catalog(n, k) : n \in 1..MaxServerPages, k \in 0..(cfg.limit - 1)}

NextCatalog ==
    \/ runAssessment
    \/ fetchNextPage
    \/ fetchReturns
    \/ catalogPageArrives
    \/ processPage
    \/ pageTimerFires
    \/ submitSucceeds

SpecCatalog == InitCatalog /\ [][NextCatalog]_vars

\* buildRiskProfile applied to one record
NextProfile == profilePatient

SpecProfile == InitPaging /\ [][NextProfile]_vars

\* buildAlerts applied to a collection
NextAlerts ==
    \/ buildAlertsIteration
    \/ buildAlertsReturns

SpecAlerts == InitPaging /\ [][NextAlerts]_vars

\* buildAlerts applied twice to the same collection
NextRepeat ==
    \/ buildAlertsIteration
    \/ buildAlertsReturns
    \/ buildAlertsAgain

SpecRepeat == InitPaging /\ [][NextRepeat]_vars

\* ----------------------------------------------------------------- claims

\* the page the continuation test compares with totalPages: the reported
\* page when it is within 2 of the local page, otherwise the local page
ReportedOrLocal ==
    LET rp == response.pagination.page
    IN IF rp.def /\ rp.n - page \in (0 - 2)..2 THEN rp.n ELSE page

\* the response being processed announces more data
MoreData ==
    \/ response.pagination.hasNext = "true"
    \/ /\ response.pagination.totalPages.def
       /\ ReportedOrLocal < response.pagination.totalPages.n
    \/ Len(ExtractPage(response)) >= cfg.limit

\* C1: after a page response has been processed, and while the safety
\* counter is not exhausted, a further page request is issued if and only if
\* hasNext is true, or currentPage < totalPages, or the extracted page holds
\* at least limit records.
C1_ContinuesIffMoreData ==
    /\ [][(pc = "process" /\ ~bodyThrows(response)) =>
            /\ MoreData <=> (pc' = "pagesleep" /\ hasNext')
            /\ ~MoreData <=> (pc' = "loop" /\ ~hasNext')]_vars
    /\ [][pc = "pagesleep" => (pc' = "loop" /\ hasNext' = hasNext)]_vars
    /\ [][pc = "loop" =>
            IF hasNext /\ safety > 0
            THEN inflight' = <<GetRequest(page, cfg.limit)>>
            ELSE req'.method # "GET" /\ iterations' = iterations]_vars

\* C1, witness: a page with hasNext=false, no totalPages and exactly limit
\* records has been processed and the loop goes on
C1_Witness ==
    /\ pc = "pagesleep"
    /\ response.pagination.present
    /\ response.pagination.hasNext = "false"
    /\ ~response.pagination.totalPages.def
    /\ Len(ExtractPage(response)) = cfg.limit

\* C2: one call of fetchAllPatients performs at most 100 page iterations and
\* then returns the patients collected so far, even when every response
\* announces more data.
C2_AtMostHundredIterations ==
    /\ [](iterations <= 100)
    /\ [][(pc = "loop" /\ iterations = 100) =>
            (fetched' = Returned(patients) /\ iterations' = iterations)]_vars

\* C2, witness: the loop was left after 100 iterations although the last
\* response announced more data
C2_Witness ==
    /\ iterations = 100
    /\ hasNext
    /\ fetched.returned
    /\ fetched.list = patients
    /\ Len(patients) > 0

\* the error carries no HTTP status, or status 429, or a status in 500..599
RetryableStatus(e) ==
    \/ ~e.hasResponse
    \/ e.status = 429
    \/ e.status \in 500..599

\* C3: withRetry retries a failed call only when the error carries no HTTP
\* status or carries 429 or a 5xx status; an error with any other status is
\* rethrown right after that failure, on whichever attempt it occurs, with no
\* sleep and no further attempt, for the GET and for the POST alike.
C3_RetriesOnlyRetryable ==
    /\ [][pc = "catch" =>
            /\ pc' = "sleep" => RetryableStatus(error)
            /\ ~RetryableStatus(error) =>
                  /\ pc' = "failed"
                  /\ thrown' = Thrown(error, req.method)
                  /\ timer' = NoTimer
                  /\ inflight' = <<>>
                  /\ calls' = calls
                  /\ sleeps' = sleeps]_vars
    /\ [][pc # "failed"]_vars

\* C3, witness: the POST failed with 404 on its second attempt and the run
\* ended without a further attempt
C3_Witness ==
    /\ pc = "failed"
    /\ thrown.by = "POST"
    /\ thrown.err.status = 404
    /\ attempt = 2
    /\ calls = 2
    /\ sleeps = 1

\* C4: when every attempt fails with a retryable error, withRetry invokes the
\* request exactly MAX_RETRIES times, sleeps only between consecutive attempts
\* and then throws the error of the last attempt; it never invokes the request
\* more than MAX_RETRIES times.
C4_AtMostMaxRetriesAttempts ==
    /\ [](calls <= cfg.maxRetries)
    /\ [](sleeps = IF pc = "sleep" THEN calls ELSE Max(calls - 1, 0))
    /\ []((thrown.by \in {"GET", "POST"} /\ RetryableStatus(thrown.err)) =>
            (calls = cfg.maxRetries /\ sleeps = cfg.maxRetries - 1 /\ ~timer.set))
    /\ [][(pc = "catch" /\ pc' # "sleep") =>
            thrown' = Thrown(error, req.method)]_vars

\* C4, witness: five attempts of a GET failed with retryable errors under
\* the default MAX_RETRIES and the last error was thrown
C4_Witness ==
    /\ pc = "failed"
    /\ thrown.by = "GET"
    /\ thrown.err.status = 503
    /\ cfg.maxRetries = DEFAULT_MAX_RETRIES
    /\ calls = DEFAULT_MAX_RETRIES
    /\ sleeps = DEFAULT_MAX_RETRIES - 1

\* C5: the POST is issued only after fetchAllPatients has returned; when a
\* page request ends in a non-retryable error or exhausts its retries the run
\* fails as a whole and no POST is issued, so no payload built from a partial
\* fetch is submitted.
C5_NoPartialSubmission ==
    /\ posts > 0 => (fetched.returned /\ payload = fetched /\ thrown.by # "GET")
    /\ (\E i \in 1..Len(inflight) : inflight[i].method = "POST") => posts > 0
    /\ thrown.by = "GET" =>
          (pc = "failed" /\ posts = 0 /\ ~payload.returned /\ inflight = <<>>)

\* C5, witness: the GET of the second page was given up after a page had been
\* collected, and nothing was submitted
C5_Witness ==
    /\ thrown.by = "GET"
    /\ Len(patients) > 0
    /\ iterations = 2
    /\ posts = 0

\* the value of the Retry-After header as withRetry reads it
HeaderValue(e) ==
    LET h == IF Truthy(e.hLower) THEN e.hLower ELSE e.hUpper
    IN IF h.t = "array" /\ h.a # <<>> THEN h.a[1] ELSE h

\* C6: when a request fails with 429 and carries a Retry-After header whose
\* value parses to s seconds with 0 < s <= 3600, the wait before the next
\* attempt is exactly s*1000 ms (5000 ms for Retry-After: 5), whatever the
\* attempt number, with no exponential or jitter component.
C6_RetryAfterHeaderWait ==
    [][(/\ pc = "catch"
        /\ pc' = "sleep"
        /\ error.hasResponse
        /\ error.status = 429
        /\ HeaderValue(error).t = "string"
        /\ ~parseInt(HeaderValue(error).s).nan
        /\ parseInt(HeaderValue(error).s).n \in 1..3600) =>
          /\ delay' = parseInt(HeaderValue(error).s).n * 1000
          /\ timer' = Timer(delay')
          /\ HeaderValue(error).s = <<"5">> => delay' = 5000]_vars

\* C6, witness: the third failure of a call was a 429 with Retry-After: 5 and
\* the call sleeps 5000 ms
C6_Witness ==
    /\ pc = "sleep"
    /\ attempt = 3
    /\ delayKind = "rateLimit"
    /\ delay = 5000
    /\ timer = Timer(5000)

\* the step of the catch block that follows a backoff sleep of this call with
\* another backoff sleep: attempts k and k+1 both failed with a non-429
\* retryable error
ConsecutiveBackoffs ==
    /\ pc = "catch"
    /\ delayKind = "backoff"
    /\ pc' = "sleep"
    /\ delayKind' = "backoff"

\* C7, as claimed: for every positive base delay and cap and every jitter
\* draw, the delay after attempt k+1 is strictly greater than the delay after
\* attempt k while that one is below RETRY_MAX_DELAY_MS, and no such delay
\* exceeds RETRY_MAX_DELAY_MS.
C7_Original ==
    /\ [][(ConsecutiveBackoffs /\ delay < cfg.maxDelay) => delay' > delay]_vars
    /\ [](delayKind = "backoff" => delay <= cfg.maxDelay)

\* C7, amended: the same for every configured base delay of at least 200 ms,
\* the width of the jitter range.
C7_BackoffIncreases ==
    /\ [][(ConsecutiveBackoffs /\ delay < cfg.maxDelay /\ cfg.baseDelay >= 200) =>
            delay' > delay]_vars
    /\ [](delayKind = "backoff" => delay <= cfg.maxDelay)

\* C7, witness: with a base delay of 200 ms the second of two consecutive
\* backoff sleeps lasts 400 ms, more than any first one (at most 399 ms)
C7_Witness ==
    /\ pc = "sleep"
    /\ delayKind = "backoff"
    /\ cfg.baseDelay = 200
    /\ attempt = 2
    /\ delay = 400

\* the first truthy value of a sequence of JavaScript values, or its last one
RECURSIVE FirstTruthy(_)
FirstTruthy(vs) ==
    IF Len(vs) = 1 \/ Truthy(Head(vs)) THEN Head(vs) ELSE FirstTruthy(Tail(vs))

\* the retry interval the server declares: header first, then the body fields
Declared(e) ==
    LET d == FirstTruthy(
                 <<e.hLower, e.hUpper>> \o
                 (IF e.body.t = "object"
                  THEN <<e.body.retry_after, e.body.retryAfter,
                         e.body.retry_after_seconds, e.body.retryAfterSeconds>>
                  ELSE <<>>))
    IN IF d.t = "array" THEN (IF d.a = <<>> THEN JSUndefined ELSE d.a[1]) ELSE d

\* the digits of s read as a fraction of a second, in ms (three digits at most)
FractionMs(s) ==
    LET d == LeadingDigits(s, 0, 0)
    IN IF d.count = 0 \/ d.count > 3 \/ d.count # Len(s) THEN NaN
       ELSE Finite(d.n * (IF d.count = 1 THEN 100 ELSE IF d.count = 2 THEN 10 ELSE 1))

\* the characters s read as a decimal number of seconds, in ms; NaN when s
\* is not a number
NumberMs(s) ==
    LET t == SkipSpace(s)
        d == LeadingDigits(t, 0, 0)
        rest == SubSeq(t, d.count + 1, Len(t))
    IN IF d.count = 0 THEN NaN
       ELSE IF rest = <<>> THEN Finite(d.n * 1000)
       ELSE IF Head(rest) = "." /\ ~FractionMs(Tail(rest)).nan
       THEN Finite(d.n * 1000 + FractionMs(Tail(rest)).n)
       ELSE NaN

\* the catch block goes to sleep after a 429
RateLimitedRetry ==
    /\ pc = "catch"
    /\ pc' = "sleep"
    /\ error.hasResponse
    /\ error.status = 429

\* C8, as claimed: the declared value is used as the delay (value*1000 ms) if
\* and only if it is a finite number of seconds in (0, 3600]; in every other
\* case the delay is min(RETRY_MAX_DELAY_MS, RATE_LIMIT_DELAY_MS * attempt).
C8_Original ==
    [][RateLimitedRetry =>
         LET ms == IF Declared(error).t \in {"string", "number"}
                   THEN NumberMs(Declared(error).s) ELSE NaN
         IN delay' = IF ~ms.nan /\ ms.n > 0 /\ ms.n <= 3600000
                     THEN ms.n
                     ELSE Min(cfg.maxDelay, cfg.rateLimitDelay * attempt')]_vars

\* C8, amended: the declared value is the first truthy one of the header and
\* then the body fields; it is used if and only if the integer n that parseInt
\* reads at the start of its string form satisfies 0 < n <= 3600, the delay
\* being n*1000 ms; in every other case the delay is
\* min(RETRY_MAX_DELAY_MS, RATE_LIMIT_DELAY_MS * attempt).
C8_DeclaredIntervalOrFallback ==
    [][RateLimitedRetry =>
         LET n == parseInt(ToStr(Declared(error)))
         IN delay' = IF ~n.nan /\ n.n > 0 /\ n.n <= 3600
                     THEN n.n * 1000
                     ELSE Min(cfg.maxDelay, cfg.rateLimitDelay * attempt')]_vars

\* C8, witness: a 429 without the header declared 6 seconds in its body and
\* the call sleeps 6000 ms
C8_Witness ==
    /\ pc = "sleep"
    /\ delayKind = "rateLimit"
    /\ delay = 6000
    /\ attempt = 2

\* the page number the response being processed reports
ReportedPage == response.pagination.page

\* C9, as claimed: after each page response the local page counter becomes
\* max(reportedPage+1, localPage+1), and localPage+1 when no page is reported.
C9_Original ==
    [][(pc = "process" /\ ~bodyThrows(response)) =>
         page' = IF ReportedPage.def
                 THEN Max(ReportedPage.n + 1, page + 1)
                 ELSE page + 1]_vars

\* C9, amended: the counter becomes max(currentPage+1, localPage+1), where
\* currentPage is the reported page when it is within 2 of the local page and
\* the local page otherwise (and when no page is reported).
C9_PageAdvance ==
    [][(pc = "process" /\ ~bodyThrows(response)) =>
         page' = Max(ReportedOrLocal + 1, page + 1)]_vars

\* C9, witness: the response reported the page after the requested one and
\* the counter moved two pages on
C9_Witness ==
    /\ pc = "pagesleep"
    /\ ReportedPage = PNum(req.page + 2)
    /\ page = req.page + 3

\* C10: at most one outbound HTTP request is outstanding at any time: a page
\* request is issued only after the previous response has been processed, a
\* retry only after the failed attempt has completed and its sleep has
\* elapsed, and the POST only after the last GET has completed.
C10_OneRequestAtATime ==
    /\ Len(inflight) <= 1
    /\ inflight # <<>> =>
          /\ inflight = <<req>>
          /\ pc = "await"
          /\ timer = NoTimer
          /\ error = NoError
          /\ response = NoResponse
          /\ req.method = "GET" => (~fetched.returned /\ req.page = page)
          /\ req.method = "POST" => fetched.returned
    /\ timer.set => inflight = <<>>

\* C10, witness: the POST is outstanding on its second attempt after two
\* pages were fetched, the second one on a retry
C10_Witness ==
    /\ inflight = <<PostRequest>>
    /\ calls = 2
    /\ iterations = 2
    /\ failBudget = MaxFailures - 2

\* s is an element of the array
Bucketed(bucket, s) == \E i \in 1..Len(bucket) : bucket[i] = s

\* the identifier is one the aggregator accepts: a string with a character
\* that is no white space, the boolean true, or a finite number >= 0
AcceptedId(id) ==
    \/ id.t = "string" /\ \E i \in 1..Len(id.s) : ~IsSpace(id.s[i])
    \/ id.t = "boolean" /\ id.s = <<"t", "r", "u", "e">>
    \/ id.t = "number" /\ ~Number(id.s).nan /\ Number(id.s).n >= 0

\* the visited records with an accepted identifier whose string form is s
AcceptedAs(s) ==
    {i \in 1..Len(records) :
        /\ ~records[i].isNull
        /\ AcceptedId(records[i].patient_id)
        /\ ToStr(records[i].patient_id) = s}

\* the string forms of the identifiers of the collection and of the output
IdStrings ==
    {ToStr(records[i].patient_id) : i \in 1..Len(records)}
    \cup {alerts.high_risk_patients[i] : i \in 1..Len(alerts.high_risk_patients)}
    \cup {alerts.fever_patients[i] : i \in 1..Len(alerts.fever_patients)}
    \cup {alerts.data_quality_issues[i] : i \in 1..Len(alerts.data_quality_issues)}

\* C11: in the output of buildAlerts a string s is in high_risk_patients if
\* and only if some record with an accepted identifier whose string form is s
\* has totalScore >= 4, in fever_patients if and only if some such record has
\* hasFever, in data_quality_issues if and only if some such record has
\* hasDataQualityIssue; the three memberships are independent.
C11_BucketMembership ==
    alerts.returned =>
        \A s \in IdStrings :
            /\ Bucketed(alerts.high_risk_patients, s) <=>
                  \E i \in AcceptedAs(s) : buildRiskProfile(records[i]).totalScore >= 4
            /\ Bucketed(alerts.fever_patients, s) <=>
                  \E i \in AcceptedAs(s) : buildRiskProfile(records[i]).hasFever
            /\ Bucketed(alerts.data_quality_issues, s) <=>
                  \E i \in AcceptedAs(s) : buildRiskProfile(records[i]).hasDataQualityIssue

\* C11, witness: the records 1 (total score exactly 4, no fever, no issue)
\* and "1" (an issue only) put "1" in two buckets and leave the third empty
C11_Witness ==
    /\ alerts.returned
    /\ Len(records) = 2
    /\ records[1].patient_id = JSNumber(<<"1">>)
    /\ records[2].patient_id = JSString(<<"1">>)
    /\ buildRiskProfile(records[1]).totalScore = 4
    /\ alerts.high_risk_patients = <<<<"1">>>>
    /\ alerts.fever_patients = <<>>
    /\ alerts.data_quality_issues = <<<<"1">>>>

\* the identifier is one the aggregator has no use for
RejectedId(id) ==
    \/ id.t \in {"null", "undefined"}
    \/ id.t \notin {"string", "number", "boolean", "null", "undefined"}
    \/ id.t = "string" /\ \A i \in 1..Len(id.s) : IsSpace(id.s[i])
    \/ id.t = "boolean" /\ id.s = <<"f", "a", "l", "s", "e">>
    \/ id.t = "number" /\ (Number(id.s).nan \/ Number(id.s).n < 0)

\* an iteration of buildAlerts over a record takes place
Visits == records' # records /\ ~patient'.isNull

\* C12: a record whose patient_id is null, undefined, of a type other than
\* string/number/boolean, an empty or whitespace-only string, false, or a
\* negative or non-finite number adds to none of the three buckets whatever
\* its clinical fields; a record with patient_id 0 is accepted and reported
\* under the identifier "0".
C12_UnusableIdentifierDropped ==
    /\ [][(Visits /\ RejectedId(patient'.patient_id)) =>
            UNCHANGED <<highRiskPatients, feverPatients, dataQualityIssues>>]_vars
    /\ [][(Visits /\ patient'.patient_id = JSNumber(<<"0">>)) =>
            /\ profile'.built
            /\ profile'.totalScore >= 4 => Bucketed(highRiskPatients', <<"0">>)
            /\ profile'.hasFever => Bucketed(feverPatients', <<"0">>)
            /\ profile'.hasDataQualityIssue => Bucketed(dataQualityIssues', <<"0">>)]_vars
    /\ [](alerts.returned =>
            \A i \in 1..Len(records) :
                (~records[i].isNull /\ records[i].patient_id = JSNumber(<<"0">>)) =>
                    /\ buildRiskProfile(records[i]).totalScore >= 4 =>
                          Bucketed(alerts.high_risk_patients, <<"0">>)
                    /\ buildRiskProfile(records[i]).hasFever =>
                          Bucketed(alerts.fever_patients, <<"0">>)
                    /\ buildRiskProfile(records[i]).hasDataQualityIssue =>
                          Bucketed(alerts.data_quality_issues, <<"0">>))

\* C12, witness: a high-risk record with the identifier -1 and a high-risk
\* record with the identifier 0 were visited; only "0" is reported
C12_Witness ==
    /\ alerts.returned
    /\ Len(records) = 2
    /\ records[1].patient_id = JSNumber(<<"-", "1">>)
    /\ buildRiskProfile(records[1]).totalScore >= 4
    /\ records[2].patient_id = JSNumber(<<"0">>)
    /\ alerts.high_risk_patients = <<<<"0">>>>
    /\ alerts.fever_patients = <<<<"0">>>>
    /\ alerts.data_quality_issues = <<>>

\* a comes strictly before b in the lexicographic order of the code units
LexBefore(a, b) ==
    \E k \in 1..(Len(b)) :
        /\ k <= Len(a) + 1
        /\ \A j \in 1..(k - 1) : a[j] = b[j]
        /\ k = Len(a) + 1 \/ CodeUnit(a[k]) < CodeUnit(b[k])

StrictlyAscending(a) == \A i \in 1..(Len(a) - 1) : LexBefore(a[i], a[i + 1])

\* C13: each of the three arrays buildAlerts returns is in strictly ascending
\* lexicographic order of identifier strings, hence holds no identifier
\* twice, also when several records share a string form.
C13_SortedWithoutDuplicates ==
    alerts.returned =>
        /\ StrictlyAscending(alerts.high_risk_patients)
        /\ StrictlyAscending(alerts.fever_patients)
        /\ StrictlyAscending(alerts.data_quality_issues)

\* C13, witness: the high-risk records "2" and "10" were visited in this
\* order and are returned as "10", "2"
C13_Witness ==
    /\ alerts.returned
    /\ highRiskPatients = <<<<"2">>, <<"1", "0">>>>
    /\ alerts.high_risk_patients = <<<<"1", "0">>, <<"2">>>>

\* C14: the profile built by buildRiskProfile has totalScore = bpScore +
\* temperatureScore + ageScore, the three being the scores of the three
\* scorers, and hasDataQualityIssue = NOT(blood pressure valid AND
\* temperature valid AND age valid).
C14_ProfileInvariant ==
    profile.built =>
        /\ profile.bpScore = scores.bp.score
        /\ profile.temperatureScore = scores.temperature.score
        /\ profile.ageScore = scores.age.score
        /\ profile.totalScore =
               profile.bpScore + profile.temperatureScore + profile.ageScore
        /\ profile.hasDataQualityIssue =
               ~(scores.bp.valid /\ scores.temperature.valid /\ scores.age.valid)

\* C14, witness: "145/95", 100 and 70 score 3 + 1 + 2 with no issue
C14_Witness ==
    /\ profile.built
    /\ profile.bpScore = 3
    /\ profile.temperatureScore = 1
    /\ profile.ageScore = 2
    /\ profile.totalScore = 6
    /\ ~profile.hasDataQualityIssue

\* the parts of the blood pressure of the record, split at "/"
BPParts == split(trim(patient.blood_pressure.s))

\* the blood pressure is a string of exactly two non-empty parts
TwoParts ==
    /\ patient.blood_pressure.t = "string"
    /\ Len(BPParts) = 2
    /\ trim(BPParts[1]) # <<>>
    /\ trim(BPParts[2]) # <<>>

\* lo <= x <= hi, x in ten-thousandths
Within(x, lo, hi) == x >= lo * 10000 /\ x <= hi * 10000

\* the score and validity the blood-pressure rules give the two numbers
ExpectedBP(systolic, diastolic) ==
    IF ~Within(systolic, 0, 300) \/ ~Within(diastolic, 0, 200)
    THEN [score |-> 0, valid |-> FALSE]
    ELSE IF systolic >= 140 * 10000 \/ diastolic >= 90 * 10000
    THEN [score |-> 3, valid |-> TRUE]
    ELSE IF Within(systolic, 130, 139) \/ Within(diastolic, 80, 89)
    THEN [score |-> 2, valid |-> TRUE]
    ELSE IF Within(systolic, 120, 129) /\ diastolic < 80 * 10000
    THEN [score |-> 1, valid |-> TRUE]
    ELSE [score |-> 0, valid |-> TRUE]

\* the blood pressure of the record is the string bp
BPIs(bp) == patient.blood_pressure = JSString(bp)

\* C15: for a blood pressure "<systolic>/<diastolic>" with both parts numeric
\* scoreBloodPressure returns invalid when systolic is outside [0,300] or
\* diastolic outside [0,200]; otherwise 3 when systolic >= 140 or diastolic
\* >= 90; otherwise 2 when systolic is in [130,139] or diastolic in [80,89];
\* otherwise 1 when systolic is in [120,129] and diastolic < 80; otherwise 0,
\* every in-range case being valid. A string that does not split into
\* exactly two non-empty parts is invalid.
C15_BloodPressureStages ==
    profile.built =>
        /\ (TwoParts /\ ~Number(BPParts[1]).nan /\ ~Number(BPParts[2]).nan) =>
              LET e == ExpectedBP(Number(BPParts[1]).n, Number(BPParts[2]).n)
              IN scores.bp.score = e.score /\ scores.bp.valid = e.valid
        /\ (patient.blood_pressure.t = "string" /\ ~TwoParts) =>
              (scores.bp.score = 0 /\ ~scores.bp.valid)
        /\ BPIs(<<"1", "4", "5", "/", "9", "5">>) => (scores.bp.score = 3 /\ scores.bp.valid)
        /\ BPIs(<<"1", "3", "5", "/", "8", "5">>) => (scores.bp.score = 2 /\ scores.bp.valid)
        /\ BPIs(<<"1", "2", "5", "/", "7", "5">>) => (scores.bp.score = 1 /\ scores.bp.valid)
        /\ BPIs(<<"1", "1", "5", "/", "7", "0">>) => (scores.bp.score = 0 /\ scores.bp.valid)
        /\ (BPIs(<<"1", "5", "0", "/">>) \/ BPIs(<<"n", "o", "t", "/", "v", "a", "l", "i", "d">>)) => ~scores.bp.valid

\* C15, witness: "130/70" is scored 2 on its systolic value alone
C15_Witness ==
    /\ profile.built
    /\ BPIs(<<"1", "3", "0", "/", "7", "0">>)
    /\ scores.bp = ScoreResult(2, TRUE)
    /\ profile.bpScore = 2

\* the number the temperature of the record parses to
Reading == toFiniteNumber(patient.temperature)

C17_Original ==
    (profile.built /\ ~Reading.nan /\ Reading.n > 115 * 10000) =>
        /\ scores.temperature.score = 0
        /\ ~scores.temperature.valid
        /\ profile.hasDataQualityIssue

\* the ScoreResult of a temperature n below 101.0 when score 1 is given in
\* the closed interval [lo, hi] (all in ten-thousandths)
LowFeverRule(n, lo, hi) ==
    IF n < 80 * 10000 \/ n > 115 * 10000
    THEN [score |-> 0, valid |-> FALSE, hasValue |-> FALSE, value |-> 0]
    ELSE IF n >= lo /\ n <= hi
    THEN [score |-> 1, valid |-> TRUE, hasValue |-> TRUE, value |-> n]
    ELSE [score |-> 0, valid |-> TRUE, hasValue |-> TRUE, value |-> n]

\* C18, as claimed: for a temperature below 101.0 and inside [80,115] the
\* score is 1 exactly in the closed interval [99.5996, 100.9004] and 0
\* (valid, value recorded) otherwise; below 101.0 and outside [80,115] the
\* temperature is invalid.
C18_Original ==
    (profile.built /\ ~Reading.nan /\ Reading.n < 101 * 10000) =>
        scores.temperature = LowFeverRule(Reading.n, 995996, 1009004)

\* C18, amended: the same with the closed interval [99.5999, 100.9001], the
\* readings of four decimals between 99.6 - 0.0001 and 100.9 + 0.0001.
C18_LowFeverInterval ==
    (profile.built /\ ~Reading.nan /\ Reading.n < 101 * 10000) =>
        scores.temperature = LowFeverRule(Reading.n, 995999, 1009001)

\* C18, witness: the temperature 100.9001 is scored 1
C18_Witness ==
    /\ profile.built
    /\ patient.temperature = JSNumber(<<"1", "0", "0", ".", "9", "0", "0", "1">>)
    /\ scores.temperature = ScoreResultWith(1, 1009001)

\* C19, as claimed: a temperature of 99.5999 gets temperature score 0 and
\* hasFever=false.
C19_Original ==
    (profile.built /\ ~Reading.nan /\ Reading.n = 995999) =>
        /\ profile.temperatureScore = 0
        /\ ~profile.hasFever

\* C20: hasFever is true if and only if the temperature was scored valid, a
\* value was recorded and that value is >= 99.6, with no tolerance; 103.5
\* and 100.0 give hasFever=true and an invalid temperature never does.
C20_FeverFlag ==
    profile.built =>
        /\ profile.hasFever <=>
              /\ scores.temperature.valid
              /\ scores.temperature.hasValue
              /\ scores.temperature.value >= 996000
        /\ patient.temperature \in {JSNumber(<<"1", "0", "3", ".", "5">>), JSNumber(<<"1", "0", "0">>)} =>
              profile.hasFever
        /\ ~scores.temperature.valid => ~profile.hasFever
        /\ (~Reading.nan /\ Reading.n < 996000) => ~profile.hasFever

\* C20, witness: the temperature 99.6 sets hasFever and 99.5999, scored like
\* it, would not: the record with 99.6 is flagged
C20_Witness ==
    /\ profile.built
    /\ patient.temperature = JSNumber(<<"9", "9", ".", "6">>)
    /\ profile.temperatureScore = 1
    /\ profile.hasFever

\* the number the age of the record parses to
AgeReading == toFiniteNumber(patient.age)

\* the age of the record is the number a
AgeIs(a) == patient.age = JSNumber(a)

\* C21: for an age that parses to a number scoreAge returns invalid (score
\* 0, valid=false) unless the value is an integer in [0,150]; a valid age
\* scores 2 above 65, 1 from 40 to 65 and 0 below 40; so 65 scores 1, 66
\* scores 2, 40 scores 1, 39 scores 0, and 45.5, -1 and 200 are invalid.
C21_AgeScore ==
    (profile.built /\ ~AgeReading.nan) =>
        /\ scores.age =
              IF AgeReading.n % 10000 # 0 \/ ~Within(AgeReading.n, 0, 150)
              THEN [score |-> 0, valid |-> FALSE, hasValue |-> FALSE, value |-> 0]
              ELSE [score |-> IF AgeReading.n > 65 * 10000 THEN 2
                              ELSE IF AgeReading.n >= 40 * 10000 THEN 1 ELSE 0,
                    valid |-> TRUE, hasValue |-> FALSE, value |-> 0]
        /\ profile.ageScore = scores.age.score
        /\ (AgeIs(<<"6", "5">>) \/ AgeIs(<<"4", "0">>) \/ AgeIs(<<"4", "5">>)) =>
              (scores.age.score = 1 /\ scores.age.valid)
        /\ (AgeIs(<<"6", "6">>) \/ AgeIs(<<"7", "0">>)) => (scores.age.score = 2 /\ scores.age.valid)
        /\ (AgeIs(<<"3", "9">>) \/ AgeIs(<<"3", "0">>)) => (scores.age.score = 0 /\ scores.age.valid)
        /\ (AgeIs(<<"4", "5", ".", "5">>) \/ AgeIs(<<"-", "1">>) \/ AgeIs(<<"2", "0", "0">>)) => ~scores.age.valid

\* C21, witness: the age 65 is scored 1
C21_Witness ==
    /\ profile.built
    /\ AgeIs(<<"6", "5">>)
    /\ scores.age = ScoreResult(1, TRUE)
    /\ profile.ageScore = 1

\* C22, as claimed: buildAlerts returns a payload without raising an error
\* for every collection the fetch client can hand it, whatever JSON values
\* its elements are; unusable records are only skipped.
C22_Original == ~alerts.threw

FirstListOf(b) ==
    IF b.t = "object" /\ b.data.k = "list" THEN b.data.v
    ELSE IF b.t = "array" THEN b.items
    ELSE IF b.t = "object" /\ b.patients.k = "list" THEN b.patients.v
    ELSE IF b.t = "object" /\ b.results.k = "list" THEN b.results.v
    ELSE <<>>

\* C24, as claimed: the page extracted from a body is its data field when
\* that is a list, else the body itself when it is a list, else its patients
\* field or its results field when that field is a list; only a body with a
\* list in none of these places yields an empty page.
C24_Original ==
    [][(pc = "process" /\ ~bodyThrows(response)) =>
         patients' = patients \o FirstListOf(response)]_vars

\* temperatures and ages that are absent or stand for no number
UnreadableNumbers ==
    {JSUndefined, JSNull, JSObject, JSBoolean(TRUE), JSNumber(<<"N", "a", "N">>), JSString(<<>>),
     JSString(<<"T", "E", "M", "P", "_", "E", "R", "R", "O", "R">>), JSString(<<"a", "b", "c">>), JSString(<<"i", "n", "v", "a", "l", "i", "d">>)}

\* blood pressures that are absent or are not two numbers around a slash
UnreadablePressures ==
    {JSUndefined, JSNull, JSString(<<>>), JSString(<<"1", "5", "0", "/">>), JSString(<<"/", "9", "0">>),
     JSString(<<"n", "o", "t", "/", "v", "a", "l", "i", "d">>)}

\* the visited records with an accepted identifier and an unreadable field
Unreadable(i) ==
    /\ ~records[i].isNull
    /\ AcceptedId(records[i].patient_id)
    /\ \/ records[i].blood_pressure \in UnreadablePressures
       \/ records[i].temperature \in UnreadableNumbers
       \/ records[i].age \in UnreadableNumbers

\* C25: a clinical field that is absent or cannot be interpreted raises no
\* error: its scorer returns valid=false with score 0, the field adds nothing
\* to totalScore, the patient is listed in data_quality_issues when its
\* identifier is accepted, and an unreadable temperature adds no patient to
\* fever_patients.
C25_UnreadableField ==
    /\ [](alerts.threw => patient.isNull)
    /\ [](profile.built =>
            /\ patient.blood_pressure \in UnreadablePressures =>
                  (scores.bp = Invalid /\ profile.bpScore = 0)
            /\ patient.temperature \in UnreadableNumbers =>
                  /\ scores.temperature = Invalid
                  /\ profile.temperatureScore = 0
                  /\ ~profile.hasFever
            /\ patient.age \in UnreadableNumbers =>
                  (scores.age = Invalid /\ profile.ageScore = 0)
            /\ profile.totalScore =
                  (IF patient.blood_pressure \in UnreadablePressures
                   THEN 0 ELSE scores.bp.score)
                  + (IF patient.temperature \in UnreadableNumbers
                     THEN 0 ELSE scores.temperature.score)
                  + (IF patient.age \in UnreadableNumbers
                     THEN 0 ELSE scores.age.score))
    /\ [](\A i \in 1..Len(records) :
            (Unreadable(i) /\ (i < Len(records) \/ profile.built)) =>
               /\ Bucketed(dataQualityIssues, ToStr(records[i].patient_id))
               /\ alerts.returned =>
                     Bucketed(alerts.data_quality_issues, ToStr(records[i].patient_id)))
    /\ [][(records' # records /\ records' # <<>>
           /\ patient'.temperature \in UnreadableNumbers) =>
             feverPatients' = feverPatients]_vars

\* C25, witness: a record whose temperature is the text TEMP_ERROR and whose
\* other fields score 5 is reported as high risk and as a data quality issue
\* and not as a fever patient
C25_Witness ==
    /\ alerts.returned
    /\ \E i \in 1..Len(records) :
          /\ records[i].temperature = JSString(<<"T", "E", "M", "P", "_", "E", "R", "R", "O", "R">>)
          /\ records[i].patient_id = JSString(<<"3">>)
    /\ Bucketed(alerts.data_quality_issues, <<"3">>)
    /\ Bucketed(alerts.high_risk_patients, <<"3">>)
    /\ ~Bucketed(alerts.fever_patients, <<"3">>)

\* C26: within one call of fetchAllPatients every page request asks for a
\* higher page than the request before it: each processed response moves the
\* page counter on by at least 1 and by at most 3, whatever page number it
\* reports.
C26_PagesStrictlyIncrease ==
    /\ [][(pc = "process" /\ ~bodyThrows(response)) =>
            (page' >= page + 1 /\ page' <= page + 3)]_vars
    /\ [][pc # "process" => page' = page]_vars
    /\ [][iterations' > iterations =>
            /\ req'.method = "GET"
            /\ req'.page = page
            /\ req'.page > req.page]_vars

\* C26, witness: the response reported a page three below the requested
\* one and the counter moved one page on
C26_Witness ==
    /\ pc = "pagesleep"
    /\ ReportedPage = PNum(req.page - 3)
    /\ page = req.page + 1

\* the records of the first n pages of the remote API, in page order
RECURSIVE PagesUpTo(_)
PagesUpTo(n) ==
    IF n = 0 THEN <<>>
    ELSE PagesUpTo(n - 1)
         \o PageList(n, IF n < server.pages THEN cfg.limit ELSE server.last, FALSE)

\* C27: against an API that holds N pages, 1 <= N <= 100, never fails,
\* answers page p with pagination {page: p, totalPages: N, hasNext: p < N},
\* limit records on every page before N and fewer on page N, the k-th page
\* request of fetchAllPatients asks for page k, there are N page requests,
\* and the list returned is the concatenation of the N pages in page order.
C27_EveryPageOnceInOrder ==
    /\ [][(server.pages <= 100 /\ iterations' > iterations) =>
            /\ iterations' = iterations + 1
            /\ inflight' = <<GetRequest(iterations', cfg.limit)>>
            /\ iterations' <= server.pages]_vars
    /\ [][(server.pages <= 100 /\ inflight' # inflight /\ inflight' # <<>>
           /\ inflight'[1].method = "GET") => iterations' > iterations]_vars
    /\ []((server.pages <= 100 /\ pc = "loop" /\ ~hasNext) =>
            (iterations = server.pages /\ patients = PagesUpTo(server.pages)))
    /\ [](server.pages <= 100 => thrown = NoThrow)
    /\ []((server.pages <= 100 /\ fetched.returned) =>
            /\ iterations = server.pages
            /\ fetched.list = PagesUpTo(server.pages))

\* C27, witness: the list of an API of 100 pages has been returned, after the
\* hundredth page request
C27_Witness ==
    /\ server = Catalog(100, 1)
    /\ fetched.returned
    /\ iterations = 100
    /\ Len(fetched.list) = 199

\* C28, as claimed: a profile with hasFever=true has a temperatureScore of at
\* least 1.
C28_Original ==
    (profile.built /\ profile.hasFever) => profile.temperatureScore >= 1

====
